---- MODULE Spec2Model ----
(***************************************************************************)
(* Schema discovery of raffopenssh/inspire-austria: the Service Status     *)
(* Tracker (update_service_status), the sequential inspection batch        *)
(* (inspect_services) and the pooled schema analysis (run_schema_analysis).*)
(***************************************************************************)
EXTENDS Integers, Sequences, FiniteSets, TLC

(* ------------------------------------------------------------------ *)
(* Bounds of the model                                                 *)
(* ------------------------------------------------------------------ *)

\* direct update_service_status calls explored by SpecStatus
MaxCalls == 3

\* services inspected by the runs of inspect_services that SpecBatch explores
MaxInspections == 4

\* runs of run_schema_analysis explored by SpecPool
MaxRuns == 2

\* the clock stops at this hour, and moves in steps of TickHours
MaxNow == 48

TickHours == 12

\* a --limit below the size of the catalogue
SmallLimit == 2

\* FeatureType elements per WFS version in a capabilities payload
MaxFeatureTypeElements == 1

\* children of the feature in a sample payload
MaxChildren == 2

\* characters after the date in a sample text
MaxSuffix == 1

\* member datasets of a combine request
MaxMembers == 5

(* ------------------------------------------------------------------ *)
(* Values                                                              *)
(* ------------------------------------------------------------------ *)

\* Python None where a string is expected (error, error_message)
None == "None"

\* Python None / SQL NULL where a dict, a list or a JSON text is expected
NoneResult == [none |-> TRUE]

HoursPerDay == 24

\* the character that separates date and time in a timestamp text
CharT == 84
CharSpace == 32

Urls == {"u1", "u2"}

DatasetIds == {"d1", "d2"}

(* ------------------------------------------------------------------ *)
(* Timestamps as text                                                  *)
(* ------------------------------------------------------------------ *)

\* datetime.utcnow().isoformat(): "YYYY-MM-DDTHH:..." at hour t of the clock
IsoFormat(t) == <<t \div HoursPerDay, CharT, t % HoursPerDay>>

\* the hour of the clock a timestamp text stands for
ParseTimestamp(ts) == ts[1] * HoursPerDay + ts[3]

\* SQLite's BINARY collation on TEXT: bytewise, left to right
RECURSIVE TextLess(_, _)
TextLess(a, b) ==
    IF b = <<>> THEN FALSE
    ELSE IF a = <<>> THEN TRUE
    ELSE IF Head(a) # Head(b) THEN Head(a) < Head(b)
    ELSE TextLess(Tail(a), Tail(b))

(* ------------------------------------------------------------------ *)
(* update_service_status                                               *)
(* ------------------------------------------------------------------ *)

\* `if result`: a discovery result is a dict with keys, None is falsy
Truthy(result) == result # NoneResult

\* json.dumps of a list: a non-empty text, "[]" for the empty list
json_dumps(v) == [json |-> v]

StatusForTimeoutAsError(result, error) ==
    IF Truthy(result) THEN "working" ELSE "error"

StatusFor(result, error) ==
    IF Truthy(result) THEN "working"
    ELSE IF error = "Timeout" THEN "timeout" ELSE "error"

\* a variant that stores an empty list for an attempt without result
fields_json_never_null(result) ==
    IF Truthy(result) THEN json_dumps(result.fields) ELSE json_dumps(<<>>)

fields_json(result) ==
    IF Truthy(result) THEN json_dumps(result.fields) ELSE NoneResult

CoalesceFirst(a, b) == a

\* SQL COALESCE(a, b)
Coalesce(a, b) == IF a # NoneResult THEN a ELSE b

SuccessIncrementAlways(result) == 1

SuccessIncrement(result) == IF Truthy(result) THEN 1 ELSE 0

\* the row of INSERT ... VALUES (?, ?, ?, ?, ?, ?, ?, 1, ?)
ExcludedRow(dataset_id, service_type, result, error, t) ==
    [dataset_id    |-> dataset_id,
     service_type  |-> service_type,
     last_checked  |-> IsoFormat(t),
     status        |-> StatusFor(result, error),
     sample_fields |-> fields_json(result),
     error_message |-> error,
     check_count   |-> 1,
     success_count |-> SuccessIncrement(result)]

\* a variant that also takes the dataset and the service type of the new row
ConflictUpdateReattributes(old, excluded) ==
    [old EXCEPT
        !.dataset_id    = excluded.dataset_id,
        !.service_type  = excluded.service_type,
        !.last_checked  = excluded.last_checked,
        !.status        = excluded.status,
        !.sample_fields = Coalesce(excluded.sample_fields, old.sample_fields),
        !.error_message = excluded.error_message,
        !.check_count   = old.check_count + 1,
        !.success_count = old.success_count + excluded.success_count]

ConflictUpdateKeepsTime(old, excluded) ==
    [old EXCEPT
        !.status        = excluded.status,
        !.sample_fields = Coalesce(excluded.sample_fields, old.sample_fields),
        !.error_message = excluded.error_message,
        !.check_count   = old.check_count + 1,
        !.success_count = old.success_count + excluded.success_count]

\* ON CONFLICT(service_url) DO UPDATE SET ...
ConflictUpdate(old, excluded) ==
    [old EXCEPT
        !.last_checked  = excluded.last_checked,
        !.status        = excluded.status,
        !.sample_fields = Coalesce(excluded.sample_fields, old.sample_fields),
        !.error_message = excluded.error_message,
        !.check_count   = old.check_count + 1,
        !.success_count = old.success_count + excluded.success_count]

\* the service_status table after update_service_status(...) at hour t
update_service_status(tbl, dataset_id, service_url, service_type, result, error, t) ==
    LET excluded == ExcludedRow(dataset_id, service_type, result, error, t)
    IN  IF service_url \in DOMAIN tbl
        THEN [tbl EXCEPT ![service_url] = ConflictUpdate(tbl[service_url], excluded)]
        ELSE [u \in DOMAIN tbl \cup {service_url} |->
                 IF u = service_url THEN excluded ELSE tbl[u]]

(* ------------------------------------------------------------------ *)
(* get_schema_for_dataset                                              *)
(* ------------------------------------------------------------------ *)

\* json.loads of a text written by json.dumps
json_loads(text) == text.json

\* the dict get_schema_for_dataset appends for a row; 'fields' is None or
\* the list (wrapped, to tell the two apart)
SchemaEntry(url, row) ==
    [url |-> url, type |-> row.service_type, status |-> row.status,
     fields |-> IF row.sample_fields # NoneResult
                THEN [list |-> json_loads(row.sample_fields)]
                ELSE NoneResult,
     last_checked |-> row.last_checked,
     checks |-> row.check_count,
     successes |-> row.success_count]

\* ORDER BY ss.status = 'working' DESC, ss.last_checked DESC: a may come before b
SchemaOrder(a, b) ==
    \/ a.status = "working" /\ b.status # "working"
    \/ /\ (a.status = "working") = (b.status = "working")
       /\ ~TextLess(a.last_checked, b.last_checked)

\* get_schema_for_dataset(dataset_id)
get_schema_for_dataset(tbl, dataset_id) ==
    LET urls  == {u \in DOMAIN tbl : tbl[u].dataset_id = dataset_id}
        order == CHOOSE seq \in [1..Cardinality(urls) -> urls] :
                     /\ \A i, j \in DOMAIN seq : i # j => seq[i] # seq[j]
                     /\ \A i, j \in DOMAIN seq : i < j => SchemaOrder(tbl[seq[i]], tbl[seq[j]])
    IN  [i \in 1..Cardinality(urls) |-> SchemaEntry(order[i], tbl[order[i]])]

(* ------------------------------------------------------------------ *)
(* HTTP replies of the inspected services                              *)
(* ------------------------------------------------------------------ *)

NoBody == [nobody |-> TRUE]

\* a requests.get that raises exc (requests.Timeout, requests.ConnectionError)
Raises(exc) == [exc |-> exc, status_code |-> 0, body |-> NoBody]

\* a requests.get that returns status_code and body
Reply(status_code, body) == [exc |-> "none", status_code |-> status_code, body |-> body]

\* a JSON document: collections (their ids, "" for a collection without id or
\* name), whether it has "links", and its features
Json(collections, links, features) ==
    [valid |-> TRUE, collections |-> collections, links |-> links, features |-> features]

\* a body resp.json() raises on
NotJson == [valid |-> FALSE, collections |-> <<>>, links |-> FALSE, features |-> <<>>]

\* a GeoJSON feature: "properties" is an object with these keys, null or absent
Feature(properties, keys, geometry) ==
    [properties |-> properties, keys |-> keys, geometry |-> geometry]

\* str(e) of the exceptions the replies can cause
StrExc(exc) ==
    CASE exc = "ConnectionError" -> "Connection refused"
      [] exc = "JSONDecodeError" -> "Expecting value: line 1 column 1 (char 0)"
      [] exc = "AttributeError"  -> "'NoneType' object has no attribute 'keys'"
      [] exc = "ParseError"      -> "syntax error: line 1, column 0"
      [] OTHER                   -> exc

\* except requests.Timeout: return None, "Timeout" / except Exception as e: return None, str(e)
Caught(exc) ==
    IF exc = "Timeout" THEN <<NoneResult, "Timeout">> ELSE <<NoneResult, StrExc(exc)>>

\* fields = list(props.keys()); if features[0].get('geometry'): fields.append('geometry')
GeoJsonFields(feature) ==
    (IF feature.properties = "absent" THEN <<>> ELSE feature.keys)
        \o (IF feature.geometry THEN <<"geometry">> ELSE <<>>)

(* ------------------------------------------------------------------ *)
(* discover_ogc_api_fields                                             *)
(* ------------------------------------------------------------------ *)

\* r.collections, r.root, r.items: the replies to the three requests
discover_ogc_api_fields(r) ==
    IF r.collections.exc # "none" THEN Caught(r.collections.exc)
    ELSE IF r.collections.status_code # 200
         THEN <<NoneResult, "Collections request failed: 500">>
    ELSE IF ~r.collections.body.valid THEN Caught("JSONDecodeError")
    ELSE LET data == r.collections.body
             retry == data.collections = <<>> /\ data.links
         IN  IF retry /\ r.root.exc # "none" THEN Caught(r.root.exc)
             ELSE IF retry /\ r.root.status_code = 200 /\ ~r.root.body.valid
                  THEN Caught("JSONDecodeError")
             ELSE LET collections ==
                          IF retry /\ r.root.status_code = 200
                          THEN r.root.body.collections ELSE data.collections
                  IN  IF collections = <<>> THEN <<NoneResult, "No collections found">>
                      ELSE IF collections[1] = "" THEN <<NoneResult, "Collection has no id">>
                      ELSE IF r.items.exc # "none" THEN Caught(r.items.exc)
                      ELSE IF r.items.status_code # 200
                           THEN <<NoneResult, "Items request failed: 500">>
                      ELSE IF ~r.items.body.valid THEN Caught("JSONDecodeError")
                      ELSE LET features == r.items.body.features
                           IN  IF features = <<>>
                               THEN <<NoneResult, "No features returned">>
                               ELSE IF features[1].properties = "null"
                                    THEN Caught("AttributeError")
                               ELSE <<[fields       |-> GeoJsonFields(features[1]),
                                       sample_count |-> Len(features)], None>>

(* ------------------------------------------------------------------ *)
(* discover_wfs_fields                                                 *)
(* ------------------------------------------------------------------ *)

\* a capabilities document: well-formed or not, and the texts of the elements
\* the three findall patterns match
Capabilities(wellformed, ft_names, names20, names11) ==
    [wellformed |-> wellformed, ft_names |-> ft_names,
     names20 |-> names20, names11 |-> names11]

\* a GetFeature body: "json" (a Json document), "gml" (members: for each element
\* whose tag contains "member", in document order, the local names of the
\* children of its first child, or <<"-">> when it has no child) or "garbled"
FeatureBody(format, json, members) ==
    [format |-> format, json |-> json, members |-> members]

NoChild == <<"-">>

\* for elem in root.iter(): if 'member' in elem.tag.lower(): the first one with a child
RECURSIVE FirstMemberFeature(_)
FirstMemberFeature(members) ==
    IF members = <<>> THEN NoChild
    ELSE IF Head(members) # NoChild THEN Head(members)
    ELSE FirstMemberFeature(Tail(members))

HasMemberFeature(members) == \E i \in 1..Len(members) : members[i] # NoChild

\* r.caps, r.feature: the replies to GetCapabilities and GetFeature
discover_wfs_fields(r) ==
    IF r.caps.exc # "none" THEN Caught(r.caps.exc)
    ELSE IF r.caps.status_code # 200 THEN <<NoneResult, "GetCapabilities failed: 500">>
    ELSE IF ~r.caps.body.wellformed THEN Caught("ParseError")
    ELSE LET c == r.caps.body
             feature_types ==
                 IF c.ft_names # <<>> THEN c.ft_names
                 ELSE IF c.names20 # <<>> THEN c.names20 ELSE c.names11
         IN  IF feature_types = <<>>
             THEN <<NoneResult, "No feature types found in capabilities">>
             ELSE IF r.feature.exc # "none" THEN Caught(r.feature.exc)
             ELSE IF r.feature.status_code # 200
                  THEN <<NoneResult, "GetFeature failed: 500">>
             ELSE LET b == r.feature.body
                      jsonFeature ==
                          /\ b.format = "json"
                          /\ b.json.valid
                          /\ b.json.features # <<>>
                          /\ b.json.features[1].properties # "null"
                  IN  IF jsonFeature
                      THEN <<[fields       |-> GeoJsonFields(b.json.features[1]),
                              sample_count |-> Len(b.json.features)], None>>
                      ELSE IF b.format = "gml" /\ HasMemberFeature(b.members)
                           THEN <<[fields       |-> FirstMemberFeature(b.members),
                                   sample_count |-> 1], None>>
                           ELSE <<NoneResult, "Could not parse response">>

(* ------------------------------------------------------------------ *)
(* The catalogue: tables datasets and dataset_services                 *)
(* ------------------------------------------------------------------ *)

\* table datasets (id -> title, gem_score)
datasets ==
    [d \in DatasetIds |->
        IF d = "d1" THEN [title |-> "t1", gem_score |-> 5]
                    ELSE [title |-> "t2", gem_score |-> 3]]

\* a row of dataset_services; the table has no uniqueness constraint on url
ServiceRow(id, dataset_id, url, service_type) ==
    [id |-> id, dataset_id |-> dataset_id, url |-> url, service_type |-> service_type]

\* the catalogue build_index left: u1 is an endpoint of two datasets, u2 is
\* listed twice by one dataset, u3 is a WMS
Catalogue ==
    <<ServiceRow(1, "d1", "u1", "OGC-API"), ServiceRow(2, "d2", "u1", "OGC-API"),
      ServiceRow(3, "d1", "u2", "WFS"),     ServiceRow(4, "d1", "u2", "WFS"),
      ServiceRow(5, "d2", "u3", "WMS")>>

Range(s) == {s[i] : i \in 1..Len(s)}

Min(a, b) == IF a < b THEN a ELSE b

(* ------------------------------------------------------------------ *)
(* inspect_services: the selection                                     *)
(* ------------------------------------------------------------------ *)

DefaultLimit == 50

DefaultSkipHours == 24

\* SQLite datetime('now', '-N hours'): "YYYY-MM-DD HH:MM:SS"
SqliteDatetime(t, skip_recent_hours) ==
    <<(t - skip_recent_hours) \div HoursPerDay, CharSpace,
      (t - skip_recent_hours) % HoursPerDay>>

\* ss.last_checked IS NULL OR ss.last_checked < datetime('now', '-N hours')
DueForInspection(tbl, url, skip_recent_hours, t) ==
    \/ url \notin DOMAIN tbl
    \/ TextLess(tbl[url].last_checked, SqliteDatetime(t, skip_recent_hours))

\* SELECT DISTINCT ds.dataset_id, ds.url, ds.service_type, d.title ... WHERE ...
SelectedRows(cat, tbl, service_types, skip_recent_hours, t) ==
    {<<row.dataset_id, row.url, row.service_type, datasets[row.dataset_id].title>> :
        row \in {x \in Range(cat) :
                    /\ x.dataset_id \in DOMAIN datasets
                    /\ x.service_type \in service_types
                    /\ DueForInspection(tbl, x.url, skip_recent_hours, t)}}

\* a variant that ranks WFS first
TypeRankWfsFirst(service_type) ==
    IF service_type = "WFS" THEN 1 ELSE IF service_type = "OGC-API" THEN 2 ELSE 3

\* CASE ds.service_type WHEN 'OGC-API' THEN 1 WHEN 'WFS' THEN 2 ELSE 3 END
TypeRank(service_type) ==
    IF service_type = "OGC-API" THEN 1 ELSE IF service_type = "WFS" THEN 2 ELSE 3

\* ORDER BY CASE ... END, d.gem_score DESC
InOrder(a, b) ==
    \/ TypeRank(a[3]) < TypeRank(b[3])
    \/ /\ TypeRank(a[3]) = TypeRank(b[3])
       /\ datasets[a[1]].gem_score >= datasets[b[1]].gem_score

\* every order of the rows the ORDER BY allows (ties are not ordered by SQL)
Orderings(rows) ==
    {s \in [1..Cardinality(rows) -> rows] :
        /\ \A i, j \in 1..Cardinality(rows) : i # j => s[i] # s[j]
        /\ \A i, j \in 1..Cardinality(rows) : i < j => InOrder(s[i], s[j])}

\* ... LIMIT ?  followed by cur.fetchall()
Selections(cat, tbl, service_types, skip_recent_hours, limit, t) ==
    {SubSeq(s, 1, Min(limit, Len(s))) :
        s \in Orderings(SelectedRows(cat, tbl, service_types, skip_recent_hours, t))}

(* ------------------------------------------------------------------ *)
(* inspect_services: one service                                       *)
(* ------------------------------------------------------------------ *)

NotIssued == Raises("not issued")

OgcReply(collections, root, items) ==
    [collections |-> collections, root |-> root, items |-> items]

WfsReply(caps, feature) == [caps |-> caps, feature |-> feature]

NoReply == [noreply |-> TRUE]

OneFeature == <<Feature("object", <<"name">>, TRUE)>>

\* what an OGC-API endpoint may answer
OgcReplies ==
    {OgcReply(Raises("Timeout"), NotIssued, NotIssued),
     OgcReply(Raises("ConnectionError"), NotIssued, NotIssued),
     OgcReply(Reply(500, NoBody), NotIssued, NotIssued),
     OgcReply(Reply(200, Json(<<"c1">>, FALSE, <<>>)), NotIssued,
              Reply(200, Json(<<>>, FALSE, <<>>))),
     OgcReply(Reply(200, Json(<<>>, TRUE, <<>>)), Reply(200, Json(<<"c1">>, FALSE, <<>>)),
              Reply(200, Json(<<>>, FALSE, OneFeature))),
     OgcReply(Reply(200, Json(<<"c1">>, FALSE, <<>>)), NotIssued,
              Reply(200, Json(<<>>, FALSE, <<Feature("absent", <<>>, FALSE)>>)))}

CapsOf(names) == Reply(200, Capabilities(TRUE, names, names, <<>>))

\* what a WFS endpoint may answer
WfsReplies ==
    {WfsReply(Raises("Timeout"), NotIssued),
     WfsReply(Reply(200, Capabilities(FALSE, <<>>, <<>>, <<>>)), NotIssued),
     WfsReply(Reply(200, Capabilities(TRUE, <<>>, <<>>, <<>>)), NotIssued),
     WfsReply(CapsOf(<<"ps:A">>),
              Reply(200, FeatureBody("json", Json(<<>>, FALSE, OneFeature), <<>>))),
     WfsReply(Reply(200, Capabilities(TRUE, <<>>, <<>>, <<"A">>)),
              Reply(200, FeatureBody("gml", NotJson, <<NoChild, <<"name", "name">> >>))),
     WfsReply(CapsOf(<<"ps:A">>), Reply(200, FeatureBody("garbled", NotJson, <<>>)))}

\* the replies a service of this type can give to the requests of its discovery
RepliesOf(svc_type) ==
    IF svc_type = "OGC-API" THEN OgcReplies
    ELSE IF svc_type = "WFS" THEN WfsReplies ELSE {NoReply}

DiscoverWithoutMessage(svc_type, reply) ==
    IF svc_type = "OGC-API" THEN discover_ogc_api_fields(reply)
    ELSE IF svc_type = "WFS" THEN discover_wfs_fields(reply)
    ELSE <<NoneResult, None>>

\* if svc_type == 'OGC-API': ... elif svc_type == 'WFS': ... else: ...
Discover(svc_type, reply) ==
    IF svc_type = "OGC-API" THEN discover_ogc_api_fields(reply)
    ELSE IF svc_type = "WFS" THEN discover_wfs_fields(reply)
    ELSE <<NoneResult, "Unknown service type">>

\* whether one of the requests of the attempt raised requests.Timeout
TimedOut(svc_type, reply) ==
    \/ svc_type = "OGC-API" /\ "Timeout" \in {reply.collections.exc, reply.root.exc, reply.items.exc}
    \/ svc_type = "WFS" /\ "Timeout" \in {reply.caps.exc, reply.feature.exc}

TallyAllFailed(results, result, error) ==
    IF Truthy(result) THEN [results EXCEPT !.success = @ + 1]
    ELSE [results EXCEPT !.failed = @ + 1]

\* if result: success += 1 / elif error == 'Timeout': timeout += 1 / else: failed += 1
Tally(results, result, error) ==
    IF Truthy(result) THEN [results EXCEPT !.success = @ + 1]
    ELSE IF error = "Timeout" THEN [results EXCEPT !.timeout = @ + 1]
    ELSE [results EXCEPT !.failed = @ + 1]

\* print(f"... {title[:50]}..."): a NULL title is not subscriptable
TitleRaises(title) == title = None

\* print(f"    ✗ {error[:50]}"): reached with neither a result nor a timeout
PrintRaises(result, error) == ~Truthy(result) /\ error # "Timeout" /\ error = None

\* log_as_feedback: one more feedback row, 'success' or 'not_accessible'
log_as_feedback(fb, result) ==
    IF Truthy(result) THEN [fb EXCEPT !.success = @ + 1]
    ELSE [fb EXCEPT !.not_accessible = @ + 1]

\* SELECT COUNT(*) FROM feedback
FeedbackRows(fb) == fb.success + fb.not_accessible

(* ------------------------------------------------------------------ *)
(* fetch_schemas: texts                                                *)
(* ------------------------------------------------------------------ *)

\* a text is the sequence of its characters
UpperCase == <<"A", "B", "C", "D", "E", "F", "G", "H", "I", "J", "K", "L", "M",
               "N", "O", "P", "Q", "R", "S", "T", "U", "V", "W", "X", "Y", "Z">>

LowerCase == <<"a", "b", "c", "d", "e", "f", "g", "h", "i", "j", "k", "l", "m",
               "n", "o", "p", "q", "r", "s", "t", "u", "v", "w", "x", "y", "z">>

\* the lower case letter of each upper case letter
ToLower ==
    [c \in {UpperCase[i] : i \in 1..Len(UpperCase)} |->
        LowerCase[CHOOSE i \in 1..Len(UpperCase) : UpperCase[i] = c]]

LowerChar(c) == IF c \in DOMAIN ToLower THEN ToLower[c] ELSE c

\* str.lower()
Lower(text) == [i \in 1..Len(text) |-> LowerChar(text[i])]

\* text.startswith(prefix)
StartsWith(text, prefix) ==
    Len(prefix) <= Len(text) /\ SubSeq(text, 1, Len(prefix)) = prefix

\* part in text
Contains(text, part) ==
    \E i \in 1..(Len(text) + 1) :
        i + Len(part) - 1 <= Len(text) /\ SubSeq(text, i, i + Len(part) - 1) = part

\* the place of the first ':' in text, 0 when it has none
FirstColon(text) ==
    IF \E i \in 1..Len(text) : text[i] = ":"
    THEN CHOOSE i \in 1..Len(text) : text[i] = ":" /\ \A j \in 1..(i - 1) : text[j] # ":"
    ELSE 0

(* ------------------------------------------------------------------ *)
(* fetch_schemas: parse_capabilities                                   *)
(* ------------------------------------------------------------------ *)

\* an element that is not there, and the .text of an element without text
Absent == <<"<absent>">>
NoText == <<"<None>">>

\* a FeatureType element: its Name and Title children in the WFS namespace
\* and without namespace; each Absent, NoText or its text
FeatureTypeElement(ns_name, ns_title, plain_name, plain_title) ==
    [ns_name |-> ns_name, ns_title |-> ns_title,
     plain_name |-> plain_name, plain_title |-> plain_title]

\* a fetched document: well-formed or not, with its WFS 2.0 and its WFS 1.1
\* FeatureType elements
XmlDocument(wellformed, wfs20, wfs11) ==
    [empty |-> FALSE, wellformed |-> wellformed, wfs20 |-> wfs20, wfs11 |-> wfs11]

\* what fetch_capabilities and fetch_feature_sample return on an exception
NoContent == [empty |-> TRUE, wellformed |-> FALSE, wfs20 |-> <<>>, wfs11 |-> <<>>]

\* the dict parse_capabilities appends for a Name element with this text
FeatureTypeEntry(name, title) ==
    LET colon       == FirstColon(name)
        ns_prefix   == IF colon > 0 THEN SubSeq(name, 1, colon - 1) ELSE <<>>
        local_name  == IF colon > 0 THEN SubSeq(name, colon + 1, Len(name)) ELSE name
    IN  [name |-> name, namespace_prefix |-> ns_prefix, local_name |-> local_name,
         title |-> IF title = Absent THEN local_name ELSE title]

\* the Name and Title elements the WFS 2.0 loop looks at
NameElement20(ft) == IF ft.ns_name = Absent THEN ft.plain_name ELSE ft.ns_name
TitleElement20(ft) == IF ft.ns_name = Absent THEN ft.plain_title ELSE ft.ns_title

\* the elements of a loop that have a Name element
Named(elements, NameOf(_)) == SelectSeq(elements, LAMBDA ft : NameOf(ft) # Absent)

\* `':' in name` with name None: TypeError
NameRaises(elements, NameOf(_)) ==
    \E i \in 1..Len(elements) : NameOf(elements[i]) = NoText

Entries(elements, NameOf(_), TitleOf(_)) ==
    LET named == Named(elements, NameOf)
    IN  [i \in 1..Len(named) |-> FeatureTypeEntry(NameOf(named[i]), TitleOf(named[i]))]

\* parse_capabilities(xml_content): the list it returns, or the exception it raises
parse_capabilities(xml) ==
    IF xml.empty \/ ~xml.wellformed THEN [raised |-> FALSE, feature_types |-> <<>>]
    ELSE IF NameRaises(xml.wfs20, NameElement20)
         THEN [raised |-> TRUE, feature_types |-> <<>>]
    ELSE IF Named(xml.wfs20, NameElement20) # <<>>
         THEN [raised |-> FALSE,
               feature_types |-> Entries(xml.wfs20, NameElement20, TitleElement20)]
    ELSE IF NameRaises(xml.wfs11, LAMBDA ft : ft.ns_name)
         THEN [raised |-> TRUE, feature_types |-> <<>>]
    ELSE [raised |-> FALSE,
          feature_types |-> Entries(xml.wfs11, LAMBDA ft : ft.ns_name,
                                    LAMBDA ft : ft.ns_title)]

(* ------------------------------------------------------------------ *)
(* fetch_schemas: extract_fields_from_sample, determine_inspire_theme  *)
(* ------------------------------------------------------------------ *)

TRUE_TEXT == <<"t", "r", "u", "e">>
FALSE_TEXT == <<"f", "a", "l", "s", "e">>
FEATURE_COLLECTION == <<"F", "e", "a", "t", "u", "r", "e", "C", "o", "l", "l", "e", "c", "t", "i", "o", "n">>
MEMBER == <<"m", "e", "m", "b", "e", "r">>

\* the words and tags that mark a geometry
GeometryWords == {<<"g", "e", "o", "m", "e", "t", "r", "y">>,
                  <<"g", "e", "o", "m">>,
                  <<"s", "h", "a", "p", "e">>,
                  <<"p", "o", "s", "i", "t", "i", "o", "n">>}
GeometryTags == {<<"P", "o", "i", "n", "t">>,
                 <<"P", "o", "l", "y", "g", "o", "n">>,
                 <<"S", "u", "r", "f", "a", "c", "e">>,
                 <<"C", "u", "r", "v", "e">>,
                 <<"M", "u", "l", "t", "i", "S", "u", "r", "f", "a", "c", "e">>}

\* an element of a GetFeature document: its tag ('{namespace}local' or
\* 'local'), its text (NoText or the text), the values of its gml:id and
\* xlink:href attributes (Absent or the value), and its child elements
Element(tag, text, gml_id, href, children) ==
    [tag |-> tag, text |-> text, gml_id |-> gml_id, href |-> href, children |-> children]

\* a GetFeature document: well-formed or not, and its elements in the order
\* of root.iter() (document order, the root first)
SampleDocument(wellformed, elements) ==
    [empty |-> FALSE, wellformed |-> wellformed, elements |-> elements]

NoSample == [empty |-> TRUE, wellformed |-> FALSE, elements |-> <<>>]

\* root.iter(): the elements of a tree in document order, the root first
RECURSIVE IterAll(_)
IterAll(elems) ==
    IF elems = <<>> THEN <<>>
    ELSE <<Head(elems)>> \o IterAll(Head(elems).children) \o IterAll(Tail(elems))

Iter(root) == IterAll(<<root>>)

Digits == {"0", "1", "2", "3", "4", "5", "6", "7", "8", "9"}

Whitespace == {" ", "\n"}

\* str.strip()
RECURSIVE LStrip(_)
LStrip(text) ==
    IF text # <<>> /\ Head(text) \in Whitespace THEN LStrip(Tail(text)) ELSE text

RECURSIVE RStrip(_)
RStrip(text) ==
    IF text # <<>> /\ text[Len(text)] \in Whitespace
    THEN RStrip(SubSeq(text, 1, Len(text) - 1))
    ELSE text

Strip(text) == RStrip(LStrip(text))

\* the text after an optional leading '-'
AfterSign(text) == IF text # <<>> /\ Head(text) = "-" THEN Tail(text) ELSE text

\* the number of leading digits of a text
RECURSIVE LeadingDigits(_)
LeadingDigits(text) ==
    IF text # <<>> /\ Head(text) \in Digits THEN 1 + LeadingDigits(Tail(text)) ELSE 0

\* '$': the end of the text, or just before a newline that ends it
AtEnd(text) == text = <<>> \/ text = <<"\n">>

\* re.match(r'^-?\d+$', text)
MatchesInteger(text) ==
    LET body == AfterSign(text)
        n    == LeadingDigits(body)
    IN  n >= 1 /\ AtEnd(SubSeq(body, n + 1, Len(body)))

\* re.match(r'^-?\d+\.\d+$', text)
MatchesDecimal(text) ==
    LET body == AfterSign(text)
        n    == LeadingDigits(body)
        rest == SubSeq(body, n + 1, Len(body))
        frac == IF rest = <<>> THEN <<>> ELSE Tail(rest)
        m    == LeadingDigits(frac)
    IN  /\ n >= 1
        /\ rest # <<>> /\ Head(rest) = "."
        /\ m >= 1
        /\ AtEnd(SubSeq(frac, m + 1, Len(frac)))

\* re.match(r'^\d{4}-\d{2}-\d{2}', text)
MatchesDate(text) ==
    /\ Len(text) >= 10
    /\ \A i \in {1, 2, 3, 4, 6, 7, 9, 10} : text[i] \in Digits
    /\ text[5] = "-" /\ text[8] = "-"

\* text.lower() in ('true', 'false')
IsBooleanText(text) == Lower(text) \in {TRUE_TEXT, FALSE_TEXT}

\* the place of the last '}' in a tag, 0 when it has none
LastBrace(tag) ==
    IF \E i \in 1..Len(tag) : tag[i] = "}"
    THEN CHOOSE i \in 1..Len(tag) : tag[i] = "}" /\ \A j \in (i + 1)..Len(tag) : tag[j] # "}"
    ELSE 0

\* ns, local = child.tag.rsplit('}', 1); ns = ns[1:]  /  ns, local = '', child.tag
LocalName(tag) == SubSeq(tag, LastBrace(tag) + 1, Len(tag))
TagNamespace(tag) == IF LastBrace(tag) > 0 THEN SubSeq(tag, 2, LastBrace(tag) - 1) ELSE <<>>

\* any(g in local.lower() for g in ['geometry', 'geom', 'shape', 'position'])
\* or any(g in str(child.tag) for g in ['Point', 'Polygon', 'Surface', 'Curve', 'MultiSurface'])
IsGeom(tag) ==
    \/ \E g \in GeometryWords : Contains(Lower(LocalName(tag)), g)
    \/ \E g \in GeometryTags : Contains(tag, g)

\* a variant that tries the numeric patterns on the text without its dashes
TextTypeWithoutDashes(child_text) ==
    LET text   == Strip(child_text)
        digits == SelectSeq(text, LAMBDA c : c # "-")
    IN  IF MatchesInteger(digits) THEN "integer"
        ELSE IF MatchesDecimal(digits) THEN "decimal"
        ELSE IF MatchesDate(text) THEN "dateTime"
        ELSE IF IsBooleanText(text) THEN "boolean"
        ELSE "string"

\* the type inferred from the text of a child that has text
TextType(child_text) ==
    LET text == Strip(child_text)
    IN  IF MatchesInteger(text) THEN "integer"
        ELSE IF MatchesDecimal(text) THEN "decimal"
        ELSE IF MatchesDate(text) THEN "dateTime"
        ELSE IF IsBooleanText(text) THEN "boolean"
        ELSE "string"

\* `if child.text` / `if href`: None and '' are false
HasText(text) == text # NoText /\ text # <<>>
HasValue(attr) == attr # Absent /\ attr # <<>>

\* field_type of a child, before the xlink:href check
InferredType(child) ==
    IF HasText(child.text) THEN TextType(child.text)
    ELSE IF IsGeom(child.tag) THEN "geometry"
    ELSE IF Len(child.children) > 0 THEN "complex"
    ELSE "string"

\* a variant in which the xlink:href only replaces the default type
FieldTypeLinkLast(child) ==
    IF InferredType(child) # "string" THEN InferredType(child)
    ELSE IF HasValue(child.href) THEN "codelist"
    ELSE "string"

\* field_type of a child
FieldType(child) == IF HasValue(child.href) THEN "codelist" ELSE InferredType(child)

\* text[:100]
SampleValueLen == 100
Truncate(text) == SubSeq(text, 1, Min(SampleValueLen, Len(text)))

\* the dict appended to fields for a child
FieldEntry(child) ==
    [name |-> LocalName(child.tag), namespace |-> TagNamespace(child.tag),
     type |-> FieldType(child), is_geometry |-> IsGeom(child.tag),
     sample_value |-> IF HasText(child.text) THEN Truncate(child.text)
                      ELSE IF HasValue(child.href) THEN Truncate(child.href)
                      ELSE NoText]

\* if 'FeatureCollection' in elem.tag or 'member' in elem.tag: continue
IsContainer(elem) == Contains(elem.tag, FEATURE_COLLECTION) \/ Contains(elem.tag, MEMBER)

\* if elem.attrib.get('{http://www.opengis.net/gml/3.2}id')
LooksLikeFeature(elem) == ~IsContainer(elem) /\ HasValue(elem.gml_id)

\* if local in seen: continue / seen.add(local)
RECURSIVE FirstOccurrences(_, _)
FirstOccurrences(children, seen) ==
    IF children = <<>> THEN <<>>
    ELSE IF LocalName(Head(children).tag) \in seen
         THEN FirstOccurrences(Tail(children), seen)
    ELSE <<Head(children)>>
         \o FirstOccurrences(Tail(children), seen \cup {LocalName(Head(children).tag)})

\* the fields of the first element that looks like a feature
FieldsOfFirstFeature(elements) ==
    IF \E i \in 1..Len(elements) : LooksLikeFeature(elements[i])
    THEN LET first == CHOOSE i \in 1..Len(elements) :
                          /\ LooksLikeFeature(elements[i])
                          /\ \A j \in 1..(i - 1) : ~LooksLikeFeature(elements[j])
             kept  == FirstOccurrences(elements[first].children, {})
         IN  [k \in 1..Len(kept) |-> FieldEntry(kept[k])]
    ELSE <<>>

\* a variant that reads the elements of a document whatever its state
extract_fields_unparsed(sample) == FieldsOfFirstFeature(sample.elements)

\* extract_fields_from_sample(xml_content, type_name)
extract_fields_from_sample(sample) ==
    IF sample.empty \/ ~sample.wellformed THEN <<>>
    ELSE FieldsOfFirstFeature(sample.elements)

\* the keys of NAMESPACES
NAMESPACES ==
    {<<"w", "f", "s">>, <<"w", "f", "s", "1", "1">>, <<"o", "w", "s">>, <<"x", "s", "d">>,
     <<"g", "m", "l">>, <<"a", "m">>, <<"e", "l", "u">>, <<"l", "u">>, <<"p", "s">>,
     <<"h", "y">>, <<"a", "d">>, <<"c", "p">>, <<"a", "u">>, <<"g", "n">>, <<"e", "l">>,
     <<"b", "a", "s", "e">>}

\* the dict themes of determine_inspire_theme, in its order
themes ==
    <<<<<<"a", "m">>, "Area Management">>,
      <<<<"e", "l", "u">>, "Existing Land Use">>,
      <<<<"l", "u">>, "Land Use">>,
      <<<<"p", "l", "u">>, "Planned Land Use">>,
      <<<<"p", "s">>, "Protected Sites">>,
      <<<<"h", "y">>, "Hydrography">>,
      <<<<"a", "d">>, "Addresses">>,
      <<<<"c", "p">>, "Cadastral Parcels">>,
      <<<<"a", "u">>, "Administrative Units">>,
      <<<<"g", "n">>, "Geographical Names">>,
      <<<<"e", "l">>, "Elevation">>,
      <<<<"t", "n">>, "Transport Networks">>,
      <<<<"b", "u">>, "Buildings">>,
      <<<<"s", "o">>, "Soil">>,
      <<<<"g", "e">>, "Geology">>,
      <<<<"e", "f">>, "Environmental Monitoring">>,
      <<<<"s", "r">>, "Species Distribution">>,
      <<<<"h", "b">>, "Habitats and Biotopes">> >>

\* if prefix in namespace.lower() or type_name.lower().startswith(prefix + ':')
ThemeMatches(prefix, namespace, type_name) ==
    \/ Contains(Lower(namespace), prefix)
    \/ StartsWith(Lower(type_name), prefix \o <<":">>)

\* determine_inspire_theme(namespace, type_name): the first theme that matches
determine_inspire_theme(namespace, type_name) ==
    IF \E i \in 1..Len(themes) : ThemeMatches(themes[i][1], namespace, type_name)
    THEN themes[CHOOSE i \in 1..Len(themes) :
                    /\ ThemeMatches(themes[i][1], namespace, type_name)
                    /\ \A j \in 1..(i - 1) : ~ThemeMatches(themes[j][1], namespace, type_name)][2]
    ELSE None

(* ------------------------------------------------------------------ *)
(* field_mappings: the canonical fields and their synonyms             *)
(* ------------------------------------------------------------------ *)

\* table canonical_fields after populate_mappings: id -> type
canonical_fields ==
    "inspire_id" :> "string" @@
    "geometry" :> "geometry" @@
    "name" :> "string" @@
    "begin_lifespan" :> "dateTime" @@
    "zone_type" :> "codelist" @@
    "legal_basis" :> "string" @@
    "legal_date" :> "date" @@
    "authority" :> "string" @@
    "land_use_type" :> "codelist" @@
    "supplementary_regulation" :> "string" @@
    "background_map" :> "string" @@
    "road_class" :> "codelist" @@
    "num_lanes" :> "integer" @@
    "traffic_direction" :> "codelist" @@
    "water_level" :> "decimal" @@
    "discharge" :> "decimal" @@
    "hazard_type" :> "codelist" @@
    "risk_level" :> "codelist" @@
    "likelihood" :> "string" @@
    "building_height" :> "decimal" @@
    "building_condition" :> "codelist" @@
    "habitat_type" :> "codelist" @@
    "object_id" :> "integer" @@
    "global_id" :> "string" @@
    "municipality_code" :> "string" @@
    "identifier" :> "string" @@
    "network_ref" :> "reference" @@
    "description" :> "string" @@
    "designation_period" :> "period" @@
    "environmental_domain" :> "codelist" @@
    "end_lifespan" :> "dateTime" @@
    "plan_reference" :> "reference" @@
    "specialized_zone_type" :> "codelist" @@
    "species" :> "complex" @@
    "vegetation" :> "complex" @@
    "observation_date" :> "date" @@
    "land_use_presence" :> "complex" @@
    "dataset_ref" :> "reference"

\* table field_synonyms after populate_mappings, in the order of its inserts
field_synonyms == <<
    [canonical_id |-> "inspire_id", source |-> "_inspire",
     field_name |-> <<"i", "n", "s", "p", "i", "r", "e", "I", "d">>],
    [canonical_id |-> "inspire_id", source |-> "_inspire",
     field_name |-> <<"i", "n", "s", "p", "i", "r", "e", "I", "D">>],
    [canonical_id |-> "inspire_id", source |-> "_inspire",
     field_name |-> <<"I", "N", "S", "P", "I", "R", "E", "I", "D">>],
    [canonical_id |-> "inspire_id", source |-> "Oberösterreich",
     field_name |-> <<"I", "n", "s", "p", "i", "r", "e", "I", "D">>],
    [canonical_id |-> "inspire_id", source |-> "Oberösterreich",
     field_name |-> <<"I", "n", "s", "p", "i", "r", "e", "I", "d">>],
    [canonical_id |-> "geometry", source |-> "_inspire",
     field_name |-> <<"g", "e", "o", "m", "e", "t", "r", "y">>],
    [canonical_id |-> "geometry", source |-> "_inspire",
     field_name |-> <<"g", "e", "o", "m", "e", "t", "r", "y", "2", "D">>],
    [canonical_id |-> "geometry", source |-> "_inspire",
     field_name |-> <<"l", "o", "c", "a", "t", "i", "o", "n">>],
    [canonical_id |-> "geometry", source |-> "Oberösterreich",
     field_name |-> <<"S", "h", "a", "p", "e">>],
    [canonical_id |-> "geometry", source |-> "Oberösterreich",
     field_name |-> <<"S", "H", "A", "P", "E">>],
    [canonical_id |-> "geometry", source |-> "_arcgis",
     field_name |-> <<"S", "h", "a", "p", "e">>],
    [canonical_id |-> "geometry", source |-> "_arcgis",
     field_name |-> <<"S", "H", "A", "P", "E">>],
    [canonical_id |-> "geometry", source |-> "_arcgis",
     field_name |-> <<"g", "e", "o", "m">>],
    [canonical_id |-> "name", source |-> "_inspire",
     field_name |-> <<"n", "a", "m", "e">>],
    [canonical_id |-> "name", source |-> "_inspire",
     field_name |-> <<"s", "i", "t", "e", "N", "a", "m", "e">>],
    [canonical_id |-> "name", source |-> "_inspire",
     field_name |-> <<"g", "e", "o", "g", "r", "a", "p", "h", "i", "c", "a", "l", "N", "a", "m", "e">>],
    [canonical_id |-> "name", source |-> "Oberösterreich",
     field_name |-> <<"N", "a", "m", "e">>],
    [canonical_id |-> "name", source |-> "Oberösterreich",
     field_name |-> <<"N", "A", "M", "E">>],
    [canonical_id |-> "name", source |-> "Oberösterreich",
     field_name |-> <<"B", "e", "z", "e", "i", "c", "h", "n", "u", "n", "g">>],
    [canonical_id |-> "begin_lifespan", source |-> "_inspire",
     field_name |-> <<"b", "e", "g", "i", "n", "L", "i", "f", "e", "s", "p", "a", "n", "V", "e", "r", "s", "i", "o", "n">>],
    [canonical_id |-> "begin_lifespan", source |-> "_inspire",
     field_name |-> <<"b", "e", "g", "i", "n", "L", "i", "f", "e", "S", "p", "a", "n", "V", "e", "r", "s", "i", "o", "n">>],
    [canonical_id |-> "begin_lifespan", source |-> "_inspire",
     field_name |-> <<"v", "a", "l", "i", "d", "F", "r", "o", "m">>],
    [canonical_id |-> "begin_lifespan", source |-> "Oberösterreich",
     field_name |-> <<"V", "a", "l", "i", "d", "F", "r", "o", "m">>],
    [canonical_id |-> "begin_lifespan", source |-> "Oberösterreich",
     field_name |-> <<"G", "u", "e", "l", "t", "i", "g", "A", "b">>],
    [canonical_id |-> "zone_type", source |-> "_inspire",
     field_name |-> <<"z", "o", "n", "e", "T", "y", "p", "e">>],
    [canonical_id |-> "zone_type", source |-> "_inspire",
     field_name |-> <<"s", "i", "t", "e", "D", "e", "s", "i", "g", "n", "a", "t", "i", "o", "n">>],
    [canonical_id |-> "zone_type", source |-> "_inspire",
     field_name |-> <<"s", "i", "t", "e", "P", "r", "o", "t", "e", "c", "t", "i", "o", "n", "C", "l", "a", "s", "s", "i", "f", "i", "c", "a", "t", "i", "o", "n">>],
    [canonical_id |-> "legal_basis", source |-> "_inspire",
     field_name |-> <<"l", "e", "g", "a", "l", "B", "a", "s", "i", "s">>],
    [canonical_id |-> "legal_basis", source |-> "_inspire",
     field_name |-> <<"l", "e", "g", "a", "l", "F", "o", "u", "n", "d", "a", "t", "i", "o", "n", "D", "o", "c", "u", "m", "e", "n", "t">>],
    [canonical_id |-> "legal_basis", source |-> "Oberösterreich",
     field_name |-> <<"O", "f", "f", "i", "c", "i", "a", "l", "D", "o", "c", "u", "m", "e", "n", "t">>],
    [canonical_id |-> "legal_basis", source |-> "Oberösterreich",
     field_name |-> <<"R", "i", "c", "h", "t", "l", "i", "n", "i", "e">>],
    [canonical_id |-> "legal_date", source |-> "_inspire",
     field_name |-> <<"l", "e", "g", "a", "l", "F", "o", "u", "n", "d", "a", "t", "i", "o", "n", "D", "a", "t", "e">>],
    [canonical_id |-> "legal_date", source |-> "Oberösterreich",
     field_name |-> <<"V", "a", "l", "i", "d", "F", "r", "o", "m">>],
    [canonical_id |-> "authority", source |-> "_inspire",
     field_name |-> <<"c", "o", "m", "p", "e", "t", "e", "n", "t", "A", "u", "t", "h", "o", "r", "i", "t", "y">>],
    [canonical_id |-> "land_use_type", source |-> "_inspire",
     field_name |-> <<"h", "i", "l", "u", "c", "s", "L", "a", "n", "d", "U", "s", "e">>],
    [canonical_id |-> "land_use_type", source |-> "_inspire",
     field_name |-> <<"s", "p", "e", "c", "i", "f", "i", "c", "L", "a", "n", "d", "U", "s", "e">>],
    [canonical_id |-> "land_use_type", source |-> "Oberösterreich",
     field_name |-> <<"R", "e", "g", "u", "l", "a", "t", "i", "o", "n", "N", "a", "t", "u", "r", "e">>],
    [canonical_id |-> "land_use_type", source |-> "Oberösterreich",
     field_name |-> <<"S", "p", "e", "c", "i", "f", "i", "c", "R", "e", "g", "u", "l", "a", "t", "i", "o", "n", "N", "a", "t", "u", "r", "e">>],
    [canonical_id |-> "land_use_type", source |-> "Oberösterreich",
     field_name |-> <<"K", "E", "N", "N", "Z", "A", "H", "L">>],
    [canonical_id |-> "land_use_type", source |-> "Tirol",
     field_name |-> <<"W", "I", "D", "M", "U", "N", "G">>],
    [canonical_id |-> "land_use_type", source |-> "Tirol",
     field_name |-> <<"W", "i", "d", "m", "u", "n", "g", "s", "a", "r", "t">>],
    [canonical_id |-> "supplementary_regulation", source |-> "_inspire",
     field_name |-> <<"s", "u", "p", "p", "l", "e", "m", "e", "n", "t", "a", "r", "y", "R", "e", "g", "u", "l", "a", "t", "i", "o", "n">>],
    [canonical_id |-> "supplementary_regulation", source |-> "Oberösterreich",
     field_name |-> <<"S", "u", "p", "p", "l", "e", "m", "e", "n", "t", "a", "r", "y", "R", "e", "g", "u", "l", "a", "t", "i", "o", "n">>],
    [canonical_id |-> "supplementary_regulation", source |-> "Oberösterreich",
     field_name |-> <<"Z", "U", "S", "A", "T", "Z", "T", "E", "X", "T">>],
    [canonical_id |-> "background_map", source |-> "Oberösterreich",
     field_name |-> <<"B", "a", "c", "k", "g", "r", "o", "u", "n", "d", "M", "a", "p">>],
    [canonical_id |-> "background_map", source |-> "Oberösterreich",
     field_name |-> <<"B", "a", "c", "k", "g", "r", "o", "u", "n", "d", "M", "a", "p", "D", "a", "t", "e">>],
    [canonical_id |-> "road_class", source |-> "_inspire",
     field_name |-> <<"f", "u", "n", "c", "t", "i", "o", "n", "a", "l", "C", "l", "a", "s", "s">>],
    [canonical_id |-> "num_lanes", source |-> "_inspire",
     field_name |-> <<"n", "u", "m", "b", "e", "r", "O", "f", "L", "a", "n", "e", "s">>],
    [canonical_id |-> "traffic_direction", source |-> "_inspire",
     field_name |-> <<"d", "i", "r", "e", "c", "t", "i", "o", "n">>],
    [canonical_id |-> "water_level", source |-> "_ehyd",
     field_name |-> <<"W">>],
    [canonical_id |-> "water_level", source |-> "_ehyd",
     field_name |-> <<"W", "a", "s", "s", "e", "r", "s", "t", "a", "n", "d">>],
    [canonical_id |-> "water_level", source |-> "_ehyd",
     field_name |-> <<"P", "e", "g", "e", "l">>],
    [canonical_id |-> "discharge", source |-> "_ehyd",
     field_name |-> <<"Q">>],
    [canonical_id |-> "discharge", source |-> "_ehyd",
     field_name |-> <<"A", "b", "f", "l", "u", "s", "s">>],
    [canonical_id |-> "discharge", source |-> "_ehyd",
     field_name |-> <<"D", "u", "r", "c", "h", "f", "l", "u", "s", "s">>],
    [canonical_id |-> "hazard_type", source |-> "_inspire",
     field_name |-> <<"t", "y", "p", "e", "O", "f", "H", "a", "z", "a", "r", "d">>],
    [canonical_id |-> "hazard_type", source |-> "Tirol",
     field_name |-> <<"G", "e", "f", "a", "h", "r", "e", "n", "a", "r", "t">>],
    [canonical_id |-> "hazard_type", source |-> "Tirol",
     field_name |-> <<"G", "E", "F", "A", "H", "R">>],
    [canonical_id |-> "risk_level", source |-> "_inspire",
     field_name |-> <<"l", "e", "v", "e", "l", "O", "f", "R", "i", "s", "k">>],
    [canonical_id |-> "risk_level", source |-> "Tirol",
     field_name |-> <<"R", "i", "s", "i", "k", "o", "s", "t", "u", "f", "e">>],
    [canonical_id |-> "risk_level", source |-> "Tirol",
     field_name |-> <<"Z", "O", "N", "E">>],
    [canonical_id |-> "likelihood", source |-> "_inspire",
     field_name |-> <<"l", "i", "k", "e", "l", "i", "h", "o", "o", "d", "O", "f", "O", "c", "c", "u", "r", "r", "e", "n", "c", "e">>],
    [canonical_id |-> "building_height", source |-> "_inspire",
     field_name |-> <<"h", "e", "i", "g", "h", "t", "A", "b", "o", "v", "e", "G", "r", "o", "u", "n", "d">>],
    [canonical_id |-> "building_height", source |-> "Oberösterreich",
     field_name |-> <<"H", "o", "e", "h", "e">>],
    [canonical_id |-> "building_height", source |-> "Oberösterreich",
     field_name |-> <<"H", "E", "I", "G", "H", "T">>],
    [canonical_id |-> "building_condition", source |-> "_inspire",
     field_name |-> <<"c", "o", "n", "d", "i", "t", "i", "o", "n", "O", "f", "C", "o", "n", "s", "t", "r", "u", "c", "t", "i", "o", "n">>],
    [canonical_id |-> "habitat_type", source |-> "_inspire",
     field_name |-> <<"h", "a", "b", "i", "t", "a", "t">>],
    [canonical_id |-> "habitat_type", source |-> "Oberösterreich",
     field_name |-> <<"B", "i", "o", "t", "o", "p", "t", "y", "p">>],
    [canonical_id |-> "habitat_type", source |-> "Oberösterreich",
     field_name |-> <<"B", "I", "O", "T", "O", "P", "_", "T", "Y", "P">>],
    [canonical_id |-> "object_id", source |-> "_arcgis",
     field_name |-> <<"O", "B", "J", "E", "C", "T", "I", "D">>],
    [canonical_id |-> "object_id", source |-> "_arcgis",
     field_name |-> <<"O", "I", "D">>],
    [canonical_id |-> "object_id", source |-> "_arcgis",
     field_name |-> <<"F", "I", "D">>],
    [canonical_id |-> "global_id", source |-> "_arcgis",
     field_name |-> <<"G", "l", "o", "b", "a", "l", "I", "D">>],
    [canonical_id |-> "global_id", source |-> "_arcgis",
     field_name |-> <<"G", "L", "O", "B", "A", "L", "I", "D">>],
    [canonical_id |-> "municipality_code", source |-> "_at",
     field_name |-> <<"G", "E", "M", "_", "N", "R">>],
    [canonical_id |-> "municipality_code", source |-> "_at",
     field_name |-> <<"G", "K", "Z">>],
    [canonical_id |-> "municipality_code", source |-> "_at",
     field_name |-> <<"G", "e", "m", "e", "i", "n", "d", "e", "k", "e", "n", "n", "z", "a", "h", "l">>],
    [canonical_id |-> "municipality_code", source |-> "_at",
     field_name |-> <<"M", "u", "n", "i", "c", "i", "p", "a", "l", "i", "t", "y", "C", "o", "d", "e">>],
    [canonical_id |-> "identifier", source |-> "_inspire",
     field_name |-> <<"i", "d", "e", "n", "t", "i", "f", "i", "e", "r">>],
    [canonical_id |-> "identifier", source |-> "_inspire",
     field_name |-> <<"I", "d", "e", "n", "t", "i", "f", "i", "e", "r">>],
    [canonical_id |-> "network_ref", source |-> "_inspire",
     field_name |-> <<"n", "e", "t", "w", "o", "r", "k", "R", "e", "f">>],
    [canonical_id |-> "network_ref", source |-> "_inspire",
     field_name |-> <<"i", "n", "N", "e", "t", "w", "o", "r", "k">>],
    [canonical_id |-> "network_ref", source |-> "_inspire",
     field_name |-> <<"l", "i", "n", "k">>],
    [canonical_id |-> "description", source |-> "_inspire",
     field_name |-> <<"d", "e", "s", "c", "r", "i", "p", "t", "i", "o", "n">>],
    [canonical_id |-> "designation_period", source |-> "_inspire",
     field_name |-> <<"d", "e", "s", "i", "g", "n", "a", "t", "i", "o", "n", "P", "e", "r", "i", "o", "d">>],
    [canonical_id |-> "designation_period", source |-> "_inspire",
     field_name |-> <<"v", "a", "l", "i", "d", "i", "t", "y", "P", "e", "r", "i", "o", "d">>],
    [canonical_id |-> "environmental_domain", source |-> "_inspire",
     field_name |-> <<"e", "n", "v", "i", "r", "o", "n", "m", "e", "n", "t", "a", "l", "D", "o", "m", "a", "i", "n">>],
    [canonical_id |-> "end_lifespan", source |-> "_inspire",
     field_name |-> <<"e", "n", "d", "L", "i", "f", "e", "s", "p", "a", "n", "V", "e", "r", "s", "i", "o", "n">>],
    [canonical_id |-> "end_lifespan", source |-> "_inspire",
     field_name |-> <<"e", "n", "d", "L", "i", "f", "e", "S", "p", "a", "n", "V", "e", "r", "s", "i", "o", "n">>],
    [canonical_id |-> "end_lifespan", source |-> "_inspire",
     field_name |-> <<"v", "a", "l", "i", "d", "T", "o">>],
    [canonical_id |-> "plan_reference", source |-> "_inspire",
     field_name |-> <<"p", "l", "a", "n">>],
    [canonical_id |-> "plan_reference", source |-> "_inspire",
     field_name |-> <<"r", "e", "l", "a", "t", "e", "d", "Z", "o", "n", "e">>],
    [canonical_id |-> "specialized_zone_type", source |-> "_inspire",
     field_name |-> <<"s", "p", "e", "c", "i", "a", "l", "i", "s", "e", "d", "Z", "o", "n", "e", "T", "y", "p", "e">>],
    [canonical_id |-> "species", source |-> "_inspire",
     field_name |-> <<"h", "a", "b", "i", "t", "a", "t", "S", "p", "e", "c", "i", "e", "s">>],
    [canonical_id |-> "species", source |-> "_inspire",
     field_name |-> <<"s", "p", "e", "c", "i", "e", "s">>],
    [canonical_id |-> "vegetation", source |-> "_inspire",
     field_name |-> <<"h", "a", "b", "i", "t", "a", "t", "V", "e", "g", "e", "t", "a", "t", "i", "o", "n">>],
    [canonical_id |-> "vegetation", source |-> "_inspire",
     field_name |-> <<"v", "e", "g", "e", "t", "a", "t", "i", "o", "n">>],
    [canonical_id |-> "observation_date", source |-> "_inspire",
     field_name |-> <<"o", "b", "s", "e", "r", "v", "a", "t", "i", "o", "n", "D", "a", "t", "e">>],
    [canonical_id |-> "land_use_presence", source |-> "_inspire",
     field_name |-> <<"h", "i", "l", "u", "c", "s", "P", "r", "e", "s", "e", "n", "c", "e">>],
    [canonical_id |-> "land_use_presence", source |-> "_inspire",
     field_name |-> <<"s", "p", "e", "c", "i", "f", "i", "c", "P", "r", "e", "s", "e", "n", "c", "e">>],
    [canonical_id |-> "dataset_ref", source |-> "_inspire",
     field_name |-> <<"d", "a", "t", "a", "s", "e", "t">>],
    [canonical_id |-> "dataset_ref", source |-> "_inspire",
     field_name |-> <<"m", "e", "m", "b", "e", "r">>] >>

\* a variant of LOWER() that leaves the text as it is
ExactText(text) == text

\* LOWER() of SQLite: the letters A-Z become a-z, every other character stays
SqliteLower(text) == [i \in 1..Len(text) |-> LowerChar(text[i])]

\* WHERE LOWER(fs.field_name) = LOWER(?)
SynonymMatches(fs, field_name) ==
    /\ SqliteLower(fs.field_name) = SqliteLower(field_name)
    /\ fs.canonical_id \in DOMAIN canonical_fields

\* a variant that answers with the last matching row
lookup_last_match(field_name) ==
    LET found == SelectSeq(field_synonyms, LAMBDA fs : SynonymMatches(fs, field_name))
    IN  IF found = <<>> THEN NoneResult
        ELSE [canonical_id |-> found[Len(found)].canonical_id,
              type |-> canonical_fields[found[Len(found)].canonical_id],
              source |-> found[Len(found)].source]

\* lookup_canonical_field(field_name): fetchone() gives the first row of the
\* scan of field_synonyms
lookup_canonical_field(field_name) ==
    LET found == SelectSeq(field_synonyms, LAMBDA fs : SynonymMatches(fs, field_name))
    IN  IF found = <<>> THEN NoneResult
        ELSE [canonical_id |-> found[1].canonical_id,
              type |-> canonical_fields[found[1].canonical_id],
              source |-> found[1].source]

(* ------------------------------------------------------------------ *)
(* server: handle_combine                                              *)
(* ------------------------------------------------------------------ *)

\* a member dataset of the request as the tables hold it: its province, the
\* names of its wfs_fields rows, and its dataset_services rows
Member(member_province, field_names, member_services) ==
    [province |-> member_province, field_names |-> field_names, services |-> member_services]

ServiceLink(service_type, url) == [service_type |-> service_type, url |-> url]

WFS == <<"W", "F", "S">>
WMS == <<"W", "M", "S">>

\* the elements of a set in some order
RECURSIVE Enumerate(_)
Enumerate(S) ==
    IF S = {} THEN <<>>
    ELSE LET x == CHOOSE x \in S : TRUE IN <<x>> \o Enumerate(S \ {x})

RECURSIVE JoinComma(_)
JoinComma(texts) ==
    IF texts = <<>> THEN <<>>
    ELSE IF Len(texts) = 1 THEN texts[1]
    ELSE texts[1] \o <<",">> \o JoinComma(Tail(texts))

\* GROUP_CONCAT(DISTINCT column): NULL for a group without a value
GROUP_CONCAT(S) == IF S = {} THEN NoText ELSE JoinComma(Enumerate(S))

\* text.split(',')
RECURSIVE Split(_)
Split(text) ==
    IF \E i \in 1..Len(text) : text[i] = ","
    THEN LET i == CHOOSE i \in 1..Len(text) :
                      text[i] = "," /\ \A j \in 1..(i - 1) : text[j] # ","
         IN  <<SubSeq(text, 1, i - 1)>> \o Split(SubSeq(text, i + 1, Len(text)))
    ELSE <<text>>

\* set(column.split(',')) if column else set()
SplitSet(column) == IF HasText(column) THEN Range(Split(column)) ELSE {}

\* the row of the GROUP BY d.id query for the member with this id
CombineRow(id, member) ==
    [id |-> id, province |-> member.province,
     services |-> GROUP_CONCAT({member.services[k].service_type :
                                   k \in 1..Len(member.services)}),
     fields |-> GROUP_CONCAT(member.field_names)]

\* SELECT url FROM dataset_services WHERE dataset_id = ? AND service_type = 'WFS' LIMIT 1
WfsRow(member) == SelectSeq(member.services, LAMBDA link : link.service_type = WFS)

all_provinces ==
    {"Wien", "Niederösterreich", "Oberösterreich", "Salzburg",
     "Tirol", "Vorarlberg", "Kärnten", "Steiermark", "Burgenland"}

\* if province: provinces_covered.add(province)
ProvincesCovered(rows) ==
    {rows[i].province : i \in {k \in 1..Len(rows) : rows[k].province \notin {None, ""}}}

\* a variant that reports every province as missing
MissingProvincesOfNothing(provinces_covered) == all_provinces

\* missing_provinces = all_provinces - provinces_covered
MissingProvinces(provinces_covered) == all_provinces \ provinces_covered

\* a variant without the floor of 2
IsCommonWithoutFloor(count, datasets_with_fields) == 2 * count >= datasets_with_fields

\* count >= max(2, datasets_with_fields * 0.5)
IsCommon(count, datasets_with_fields) ==
    count >= 2 /\ 2 * count >= datasets_with_fields

\* a variant that is content with one WFS
CombinableWithOne(has_wfs) == Len(has_wfs) >= 1

\* combinable = len(has_wfs) >= 2
Combinable(has_wfs) == Len(has_wfs) >= 2

\* handle_combine(query) from rows = cur.fetchall() on: the JSON it sends
handle_combine(members) ==
    LET rows == [i \in 1..Len(members) |-> CombineRow(i, members[i])]
        field_set == [i \in 1..Len(rows) |-> SplitSet(rows[i].fields)]
        svc_set == [i \in 1..Len(rows) |-> SplitSet(rows[i].services)]
        all_fields == UNION {field_set[i] : i \in 1..Len(rows)}
        datasets_with_fields == Cardinality({i \in 1..Len(rows) : field_set[i] # {}})
        field_counts == [f \in all_fields |->
                            Cardinality({i \in 1..Len(rows) : f \in field_set[i]})]
        provinces_covered == ProvincesCovered(rows)
        with_wfs == SelectSeq([i \in 1..Len(rows) |-> i],
                              LAMBDA i : WFS \in svc_set[i] /\ WfsRow(members[i]) # <<>>)
        has_wfs == [k \in 1..Len(with_wfs) |->
                       [id |-> with_wfs[k], province |-> rows[with_wfs[k]].province,
                        url |-> WfsRow(members[with_wfs[k]])[1].url,
                        fields |-> field_set[with_wfs[k]]]]
        common_fields == {f \in all_fields : IsCommon(field_counts[f], datasets_with_fields)}
        mapped == {f \in common_fields : lookup_canonical_field(f) # NoneResult}
    IN  [total_datasets |-> Len(rows),
         provinces_covered |-> provinces_covered,
         missing_provinces |-> MissingProvinces(provinces_covered),
         datasets_with_wfs |-> Len(has_wfs),
         common_fields |-> common_fields,
         all_fields |-> all_fields,
         field_mappings |-> {[field |-> f,
                              canonical |-> lookup_canonical_field(f).canonical_id] :
                                f \in mapped},
         combinable |-> Combinable(has_wfs),
         wfs_services |-> has_wfs,
         combination_prompt |-> Combinable(has_wfs)]

(* ------------------------------------------------------------------ *)
(* fetch_schemas: process_service, save_schema_results                 *)
(* ------------------------------------------------------------------ *)

MAX_WORKERS == 5

\* for ft in feature_types[:3]
MaxFeatureTypes == 3

\* the URLs of the catalogue that contain 'inspire'
InspireUrls == {"u1"}

\* table datasets: province
province == [d \in DatasetIds |-> IF d = "d1" THEN "Wien" ELSE "Tirol"]

\* what the service answers: to GetCapabilities, and to the GetFeature of
\* each of the first feature types
ServiceReply(caps, samples) == [caps |-> caps, samples |-> samples]

\* the feature type dict after the loop body of process_service
Sampled(ft, sample, url) ==
    [name |-> ft.name, namespace_prefix |-> ft.namespace_prefix,
     local_name |-> ft.local_name, title |-> ft.title,
     fields |-> extract_fields_from_sample(sample),
     is_inspire |-> (ft.namespace_prefix \in NAMESPACES \/ url \in InspireUrls),
     inspire_theme |-> determine_inspire_theme(ft.namespace_prefix, ft.name)]

\* a variant that gives up on the service at the first sample that could not
\* be fetched
process_service_giving_up(service_info, reply) ==
    LET base   == [service_id |-> service_info[1], dataset_id |-> service_info[2],
                   province |-> service_info[4], title |-> service_info[5],
                   feature_types |-> <<>>, error |-> None, raised |-> FALSE]
        parsed == parse_capabilities(reply.caps)
        first  == SubSeq(parsed.feature_types, 1,
                         Min(MaxFeatureTypes, Len(parsed.feature_types)))
    IN  IF reply.caps.empty
        THEN [base EXCEPT !.error = "Failed to fetch capabilities"]
        ELSE IF parsed.raised THEN [base EXCEPT !.raised = TRUE]
        ELSE IF parsed.feature_types = <<>>
             THEN [base EXCEPT !.error = "No feature types found"]
        ELSE IF \E i \in 1..Len(first) : reply.samples[i].empty
             THEN [base EXCEPT !.error = "Failed to fetch sample"]
        ELSE [base EXCEPT !.feature_types =
                 [i \in 1..Len(first) |-> Sampled(first[i], reply.samples[i], service_info[3])]]

\* process_service(service_info): the result dict, or raised when an
\* exception leaves it
process_service(service_info, reply) ==
    LET base   == [service_id |-> service_info[1], dataset_id |-> service_info[2],
                   province |-> service_info[4], title |-> service_info[5],
                   feature_types |-> <<>>, error |-> None, raised |-> FALSE]
        parsed == parse_capabilities(reply.caps)
        first  == SubSeq(parsed.feature_types, 1,
                         Min(MaxFeatureTypes, Len(parsed.feature_types)))
    IN  IF reply.caps.empty
        THEN [base EXCEPT !.error = "Failed to fetch capabilities"]
        ELSE IF parsed.raised THEN [base EXCEPT !.raised = TRUE]
        ELSE IF parsed.feature_types = <<>>
             THEN [base EXCEPT !.error = "No feature types found"]
        ELSE [base EXCEPT !.feature_types =
                 [i \in 1..Len(first) |-> Sampled(first[i], reply.samples[i], service_info[3])]]

\* a variant that asks for a sample of ps:A when the capabilities gave no
\* feature type
sample_requests_without_types(reply) ==
    LET parsed == parse_capabilities(reply.caps)
        first  == SubSeq(parsed.feature_types, 1,
                         Min(MaxFeatureTypes, Len(parsed.feature_types)))
    IN  IF reply.caps.empty \/ parsed.raised THEN <<>>
        ELSE IF parsed.feature_types = <<>> THEN << <<"p", "s", ":", "A">> >>
        ELSE [i \in 1..Len(first) |-> first[i].name]

\* the calls of fetch_feature_sample that process_service makes: the type
\* names, in the order of the calls
sample_requests(reply) ==
    LET parsed == parse_capabilities(reply.caps)
        first  == SubSeq(parsed.feature_types, 1,
                         Min(MaxFeatureTypes, Len(parsed.feature_types)))
    IN  IF reply.caps.empty \/ parsed.raised \/ parsed.feature_types = <<>> THEN <<>>
        ELSE [i \in 1..Len(first) |-> first[i].name]

\* the rows save_schema_results adds to wfs_feature_types for one result;
\* ids continue after next_id
FeatureTypeRows(r, next_id) ==
    IF r.error # None THEN <<>>
    ELSE [i \in 1..Len(r.feature_types) |->
             [id |-> next_id + i, service_id |-> r.service_id, dataset_id |-> r.dataset_id,
              type_name |-> r.feature_types[i].name,
              inspire_theme |-> r.feature_types[i].inspire_theme,
              fields |-> r.feature_types[i].fields]]

\* save_schema_results(results): wfs_feature_types with the rows of every
\* result without error (each row with its wfs_fields rows)
RECURSIVE save_schema_results(_, _)
save_schema_results(tbl, rs) ==
    IF rs = <<>> THEN tbl
    ELSE save_schema_results(tbl \o FeatureTypeRows(Head(rs), Len(tbl)), Tail(rs))

\* get_wfs_services(limit): SELECT s.id, d.id, s.url, d.province, d.title ...
\* WHERE s.service_type = 'WFS' AND s.url IS NOT NULL [LIMIT limit]
get_wfs_services(cat, limit) ==
    LET wfs  == SelectSeq(cat, LAMBDA row : /\ row.service_type = "WFS"
                                            /\ row.url # None
                                            /\ row.dataset_id \in DOMAIN datasets)
        rows == [i \in 1..Len(wfs) |->
                    <<wfs[i].id, wfs[i].dataset_id, wfs[i].url,
                      province[wfs[i].dataset_id], datasets[wfs[i].dataset_id].title>>]
    IN  IF limit > 0 THEN SubSeq(rows, 1, Min(limit, Len(rows))) ELSE rows

(* ------------------------------------------------------------------ *)
(* server: the datasets of a combine request as the tables hold them   *)
(* ------------------------------------------------------------------ *)

\* the text of a service kind of dataset_services
ServiceTypeText(service_type) ==
    IF service_type = "WFS" THEN WFS
    ELSE IF service_type = "WMS" THEN WMS
    ELSE <<"O", "G", "C", "-", "A", "P", "I">>

\* the joins of the query for one dataset: every wfs_fields row of every
\* wfs_feature_types row of the dataset, and its dataset_services rows
JoinedFieldNames(tbl, dataset_id) ==
    UNION {{tbl[i].fields[k].name : k \in 1..Len(tbl[i].fields)} :
              i \in {i \in 1..Len(tbl) : tbl[i].dataset_id = dataset_id}}

JoinedMember(tbl, cat, dataset_id) ==
    LET links == SelectSeq(cat, LAMBDA row : row.dataset_id = dataset_id)
    IN  Member(province[dataset_id], JoinedFieldNames(tbl, dataset_id),
               [k \in 1..Len(links) |->
                   ServiceLink(ServiceTypeText(links[k].service_type), links[k].url)])

(* ------------------------------------------------------------------ *)
(* State                                                               *)
(* ------------------------------------------------------------------ *)

VARIABLES
    service_status,   \* table service_status, keyed by service_url
    now,              \* the clock, in hours
    calls,            \* every direct update_service_status call so far, in order
    dataset_services, \* table dataset_services
    feedback,         \* table feedback: rows per issue_type
    pc,               \* inspect_services: "idle", "running" or "returned"
    args,             \* inspect_services: limit, service_types, skip_recent_hours
    services,         \* inspect_services: cur.fetchall()
    idx,              \* inspect_services: the service the loop is at
    results,          \* inspect_services: the tallies
    attempts,         \* what the running batch did, one entry per loop iteration
    pool_pc,          \* run_schema_analysis: "idle", "running", "aborting", "aborted", "saved"
    pool_services,    \* run_schema_analysis: get_wfs_services(limit)
    futures,          \* run_schema_analysis: the future of each service (and what
                      \* the service answered to its process_service)
    pool_results,     \* run_schema_analysis: results, in the order of completion
    wfs_feature_types,\* table wfs_feature_types, each row with its wfs_fields
    runs,             \* runs of run_schema_analysis started
    call,             \* a function or request handler called on its own: name and input
    ret               \* what that call returned

trackerVars == <<service_status, now>>
batchVars == <<dataset_services, feedback, pc, args, services, idx, results, attempts>>
poolVars == <<pool_pc, pool_services, futures, pool_results, wfs_feature_types, runs>>
callVars == <<call, ret>>
vars == <<service_status, now, calls, dataset_services, feedback, pc, args, services,
          idx, results, attempts, pool_pc, pool_services, futures, pool_results,
          wfs_feature_types, runs, call, ret>>

NoArgs == [limit |-> DefaultLimit, service_types |-> {"OGC-API", "WFS"},
           skip_recent_hours |-> DefaultSkipHours]

InitBatchVars ==
    /\ feedback = [success |-> 0, not_accessible |-> 0]
    /\ pc = "idle"
    /\ args = NoArgs
    /\ services = <<>>
    /\ idx = 1
    /\ results = [success |-> 0, failed |-> 0, timeout |-> 0]
    /\ attempts = <<>>

InitPoolVars ==
    /\ pool_pc = "idle"
    /\ pool_services = <<>>
    /\ futures = <<>>
    /\ pool_results = <<>>
    /\ wfs_feature_types = <<>>
    /\ runs = 0

\* no function called on its own yet
NoCall == [fn |-> "none"]
NotReturned == [returned |-> FALSE]

InitCallVars ==
    /\ call = NoCall
    /\ ret = NotReturned

(* ------------------------------------------------------------------ *)
(* SpecStatus: sequences of update_service_status calls                *)
(* ------------------------------------------------------------------ *)

\* what a discovery attempt hands to update_service_status
FieldLists == {<<>>, <<"name">>, <<"name", "geometry">>}

Outcomes ==
    {<<[fields |-> f, sample_count |-> 1], None>> : f \in FieldLists}
    \cup {<<NoneResult, e>> : e \in {"Timeout", "GetCapabilities failed: 500"}}

Callers == {<<"d1", "WFS">>, <<"d2", "OGC-API">>}

InitStatus ==
    /\ service_status = <<>>
    /\ now = 0
    /\ calls = <<>>
    /\ dataset_services = Catalogue
    /\ InitBatchVars
    /\ InitPoolVars
    /\ InitCallVars

\* one call update_service_status(conn, dataset_id, service_url, service_type,
\* result, error), an hour after the previous one
RecordAttempt(url, caller, outcome) ==
    /\ Len(calls) < MaxCalls
    /\ now' = now + 1
    /\ service_status' = update_service_status(service_status, caller[1], url,
                             caller[2], outcome[1], outcome[2], now')
    /\ calls' = Append(calls, [url |-> url, dataset_id |-> caller[1],
                               service_type |-> caller[2], result |-> outcome[1],
                               error |-> outcome[2], at |-> now',
                               status |-> StatusFor(outcome[1], outcome[2])])
    /\ UNCHANGED <<callVars, batchVars, poolVars>>

NextStatus ==
    \E url \in Urls, caller \in Callers, outcome \in Outcomes :
        RecordAttempt(url, caller, outcome)

SpecStatus == InitStatus /\ [][NextStatus]_vars

(* ------------------------------------------------------------------ *)
(* SpecBatch: runs of inspect_services                                 *)
(* ------------------------------------------------------------------ *)

Limits == {SmallLimit, DefaultLimit}

TypeSelections == {{"OGC-API", "WFS"}, {"OGC-API", "WFS", "WMS"}}

InitBatch ==
    /\ service_status = <<>>
    /\ now = 0
    /\ calls = <<>>
    /\ dataset_services = Catalogue
    /\ InitBatchVars
    /\ InitPoolVars
    /\ InitCallVars

\* time passes between two runs (a run takes less than an hour)
Tick ==
    /\ pc # "running"
    /\ now + TickHours <= MaxNow
    /\ now' = now + TickHours
    /\ UNCHANGED <<callVars, service_status, calls, batchVars, poolVars>>

\* inspect_services(limit, service_types, skip_recent_hours) up to cur.fetchall()
StartBatch(limit, service_types, skip_recent_hours) ==
    /\ pc # "running"
    /\ args' = [limit |-> limit, service_types |-> service_types,
                skip_recent_hours |-> skip_recent_hours]
    /\ services' \in Selections(dataset_services, service_status, service_types,
                                skip_recent_hours, limit, now)
    /\ idx' = 1
    /\ results' = [success |-> 0, failed |-> 0, timeout |-> 0]
    /\ attempts' = <<>>
    /\ FeedbackRows(feedback) + Len(services') <= MaxInspections
    /\ pc' = "running"
    /\ UNCHANGED <<callVars, service_status, now, calls, dataset_services, feedback, poolVars>>

\* one iteration of the loop: discovery, update_service_status, log_as_feedback,
\* tally; an exception of the loop body itself leaves inspect_services
InspectService(reply) ==
    LET svc    == services[idx]
        found  == Discover(svc[3], reply)
        result == found[1]
        error  == found[2]
        tbl    == update_service_status(service_status, svc[1], svc[2], svc[3],
                                        result, error, now)
    IN  IF TitleRaises(svc[4])
        THEN /\ pc' = "aborted"
             /\ UNCHANGED <<callVars, service_status, now, calls, dataset_services, feedback,
                            args, services, idx, results, attempts, poolVars>>
        ELSE /\ service_status' = tbl
             /\ feedback' = log_as_feedback(feedback, result)
             /\ results' = Tally(results, result, error)
             /\ attempts' = Append(attempts,
                    [url |-> svc[2], result |-> result, error |-> error,
                     status |-> StatusFor(result, error),
                     timed_out |-> TimedOut(svc[3], reply)])
             /\ IF PrintRaises(result, error)
                THEN pc' = "aborted" /\ idx' = idx
                ELSE pc' = pc /\ idx' = idx + 1
             /\ UNCHANGED <<callVars, now, calls, dataset_services, args, services, poolVars>>

\* conn.close(); return results
FinishBatch ==
    /\ pc = "running"
    /\ idx > Len(services)
    /\ pc' = "returned"
    /\ UNCHANGED <<callVars, service_status, now, calls, dataset_services, feedback, args,
                   services, idx, results, attempts, poolVars>>

NextBatch ==
    \/ Tick
    \/ \E limit \in Limits, service_types \in TypeSelections :
           StartBatch(limit, service_types, DefaultSkipHours)
    \/ /\ pc = "running"
       /\ idx <= Len(services)
       /\ \E reply \in RepliesOf(services[idx][3]) : InspectService(reply)
    \/ FinishBatch

SpecBatch == InitBatch /\ [][NextBatch]_vars

\* the loop of a started run goes on: every request of an iteration carries a
\* timeout, so an iteration ends, and so does the return after the last one
InspectStep ==
    /\ pc = "running"
    /\ idx <= Len(services)
    /\ \E reply \in RepliesOf(services[idx][3]) : InspectService(reply)

SpecBatchFair == SpecBatch /\ WF_vars(InspectStep) /\ WF_vars(FinishBatch)

(* ------------------------------------------------------------------ *)
(* SpecPool: runs of run_schema_analysis                               *)
(* ------------------------------------------------------------------ *)

PsA == <<"p", "s", ":", "A">>

NoSamples == <<NoSample, NoSample, NoSample>>

\* the elements of a GetFeature answer: the collection, a member, and the
\* feature with its gml:id and its children
Child(tag, text) == Element(tag, text, Absent, Absent, <<>>)
CollectionElement == Element(<<"{", "w", "}", "F", "e", "a", "t", "u", "r", "e", "C", "o", "l", "l", "e", "c", "t", "i", "o", "n">>, NoText, Absent, Absent, <<>>)
MemberElement == Element(<<"{", "w", "}", "m", "e", "m", "b", "e", "r">>, NoText, Absent, Absent, <<>>)
FeatureElement(children) == Element(<<"{", "p", "}", "S", "i", "t", "e">>, NoText, <<"S", "1">>, Absent, children)
NameChild == Child(<<"{", "p", "}", "n", "a", "m", "e">>, <<"A", "u">>)
GeometryChild == Element(<<"{", "p", "}", "g", "e", "o", "m", "e", "t", "r", "y">>, NoText, Absent, Absent, <<Child(<<"{", "g", "}", "P", "o", "i", "n", "t">>, NoText)>>)

FeatureCollectionOf(children) == <<CollectionElement, MemberElement, FeatureElement(children)>>

\* what a WFS endpoint may answer to process_service
ServiceReplies ==
    {ServiceReply(NoContent, NoSamples),
     ServiceReply(XmlDocument(FALSE, <<>>, <<>>), NoSamples),
     ServiceReply(XmlDocument(TRUE, <<FeatureTypeElement(NoText, Absent, Absent, Absent)>>, <<>>),
                  NoSamples),
     ServiceReply(XmlDocument(TRUE, <<FeatureTypeElement(PsA, <<"A">>, Absent, Absent)>>, <<>>),
                  NoSamples),
     ServiceReply(XmlDocument(TRUE, <<>>, <<FeatureTypeElement(PsA, Absent, Absent, Absent),
                                            FeatureTypeElement(<<"B">>, NoText, Absent, Absent)>>),
                  <<SampleDocument(TRUE, FeatureCollectionOf(<<NameChild, GeometryChild, NameChild>>)),
                    SampleDocument(FALSE, FeatureCollectionOf(<<NameChild>>)), NoSample>>),
     ServiceReply(XmlDocument(TRUE, <<FeatureTypeElement(PsA, Absent, Absent, Absent),
                                      FeatureTypeElement(<<"B">>, Absent, Absent, Absent),
                                      FeatureTypeElement(Absent, Absent, <<"C">>, Absent),
                                      FeatureTypeElement(<<"D">>, Absent, Absent, Absent)>>, <<>>),
                  <<SampleDocument(TRUE, FeatureCollectionOf(<<NameChild>>)), NoSample,
                    SampleDocument(TRUE, FeatureCollectionOf(<<GeometryChild>>))>>)}

Limit0 == 0

PoolLimits == {Limit0, SmallLimit}

InitPool ==
    /\ service_status = <<>>
    /\ now = 0
    /\ calls = <<>>
    /\ dataset_services = Catalogue
    /\ InitBatchVars
    /\ InitPoolVars
    /\ InitCallVars

FutureStates(state) == {i \in 1..Len(futures) : futures[i].state = state}

\* run_schema_analysis(limit) up to the submission of every service to the pool
StartAnalysis(limit) ==
    /\ pool_pc \in {"idle", "saved", "aborted"}
    /\ runs < MaxRuns
    /\ runs' = runs + 1
    /\ pool_services' = get_wfs_services(dataset_services, limit)
    /\ futures' = [i \in 1..Len(pool_services') |->
                       [state |-> "pending", result |-> NoneResult, reply |-> NoneResult,
                        requests |-> <<>>]]
    /\ pool_results' = <<>>
    /\ pool_pc' = "running"
    /\ UNCHANGED <<callVars, trackerVars, calls, batchVars, wfs_feature_types>>

\* a free worker of the pool takes a submitted service
StartWorker(i) ==
    /\ pool_pc \in {"running", "aborting"}
    /\ futures[i].state = "pending"
    /\ Cardinality(FutureStates("running")) < MAX_WORKERS
    /\ futures' = [futures EXCEPT ![i].state = "running"]
    /\ UNCHANGED <<callVars, trackerVars, calls, batchVars, pool_pc, pool_services, pool_results,
                   wfs_feature_types, runs>>

\* process_service ends, with its result or with an exception
FinishWorker(i, reply) ==
    /\ pool_pc \in {"running", "aborting"}
    /\ futures[i].state = "running"
    /\ futures' = [futures EXCEPT ![i] =
                      [state |-> "done", result |-> process_service(pool_services[i], reply),
                       reply |-> reply, requests |-> sample_requests(reply)]]
    /\ UNCHANGED <<callVars, trackerVars, calls, batchVars, pool_pc, pool_services, pool_results,
                   wfs_feature_types, runs>>

\* for future in as_completed(futures): result = future.result();
\* results.append(result) -- future.result() raises what process_service raised
Collect(i) ==
    /\ pool_pc = "running"
    /\ futures[i].state = "done"
    /\ futures' = [futures EXCEPT ![i].state = "collected"]
    /\ IF futures[i].result.raised
       THEN pool_pc' = "aborting" /\ pool_results' = pool_results
       ELSE pool_pc' = pool_pc /\ pool_results' = Append(pool_results, futures[i].result)
    /\ UNCHANGED <<callVars, trackerVars, calls, batchVars, pool_services, wfs_feature_types, runs>>

\* the exception leaves the with block once the pool has shut down
\* (shutdown(wait=True)), and then run_schema_analysis
Abort ==
    /\ pool_pc = "aborting"
    /\ FutureStates("pending") \cup FutureStates("running") = {}
    /\ pool_pc' = "aborted"
    /\ UNCHANGED <<callVars, trackerVars, calls, batchVars, pool_services, futures, pool_results,
                   wfs_feature_types, runs>>

\* save_schema_results(results); return results
Save ==
    /\ pool_pc = "running"
    /\ FutureStates("collected") = 1..Len(futures)
    /\ wfs_feature_types' = save_schema_results(wfs_feature_types, pool_results)
    /\ pool_pc' = "saved"
    /\ UNCHANGED <<callVars, trackerVars, calls, batchVars, pool_services, futures, pool_results, runs>>

NextPool ==
    \/ \E limit \in PoolLimits : StartAnalysis(limit)
    \/ \E i \in 1..Len(futures) : StartWorker(i)
    \/ \E i \in 1..Len(futures), reply \in ServiceReplies : FinishWorker(i, reply)
    \/ \E i \in 1..Len(futures) : Collect(i)
    \/ Abort
    \/ Save

SpecPool == InitPool /\ [][NextPool]_vars

(* ------------------------------------------------------------------ *)
(* SpecParse: parse_capabilities and extract_fields_from_sample on the *)
(* payloads a service can send                                         *)
(* ------------------------------------------------------------------ *)

\* a lone call leaves the tables and the runs alone
programVars == <<trackerVars, calls, batchVars, poolVars>>

InitIdle ==
    /\ service_status = <<>>
    /\ now = 0
    /\ calls = <<>>
    /\ dataset_services = Catalogue
    /\ InitBatchVars
    /\ InitPoolVars

\* the sequences over a set with at most n elements
UpTo(S, n) == UNION {[1..k -> S] : k \in 0..n}

\* the Name and Title children a FeatureType element of WFS 2.0 may have:
\* in the WFS namespace, or without namespace
FeatureTypeElements20 ==
    {FeatureTypeElement(ns_name, title, plain_name, title) :
        ns_name \in {Absent, NoText, PsA, <<"B">>},
        plain_name \in {Absent, NoText, <<"C">>},
        title \in {Absent, <<"T">>}}

\* and those of a FeatureType element of WFS 1.1
FeatureTypeElements11 ==
    {FeatureTypeElement(ns_name, title, Absent, Absent) :
        ns_name \in {Absent, NoText, PsA, <<"B">>},
        title \in {Absent, NoText}}

\* capabilities payloads: None or '', text that is not well-formed XML, and
\* documents with FeatureType elements of WFS 2.0 and of WFS 1.1
CapabilityPayloads ==
    {NoContent, XmlDocument(FALSE, <<>>, <<>>)}
    \cup {XmlDocument(TRUE, wfs20, wfs11) :
            wfs20 \in UpTo(FeatureTypeElements20, MaxFeatureTypeElements),
            wfs11 \in UpTo(FeatureTypeElements11, MaxFeatureTypeElements)}

DATE == <<"2", "0", "2", "4", "-", "0", "1", "-", "0", "1">>

\* texts that start with a date, followed by at most MaxSuffix more characters
DateTexts == {DATE \o suffix : suffix \in UpTo({"0", ".", "T", "\n"}, MaxSuffix)}

\* the texts of the children of a sample feature
SampleTexts ==
    DateTexts
    \cup {NoText, <<>>, <<" ">>, <<" ", "2", "0", "2", "4", "-", "0", "1", "-", "0", "1">>, <<"2", "0", "2", "4", "0", "1", "0", "1">>, <<"2", "0", "2", "4", "-", "1", "-", "0", "1">>, <<"-", "5">>, <<"1", ".", "5">>, <<"T", "R", "U", "E">>, <<"a", "b", "c">>}

DATE_TAG == <<"d", "a", "t", "e">>

LINK == <<"h", "t", "t", "p", ":", "/", "/", "c", "/", "1">>

\* the children of a sample feature
SampleChildren ==
    {Child(DATE_TAG, text) : text \in SampleTexts}
    \cup {NameChild, Child(<<"{", "p", "}", "n", "a", "m", "e">>, NoText)}
    \cup {Element(<<"{", "p", "}", "s", "t", "a", "t", "u", "s">>, text, Absent, LINK, <<>>) : text \in {NoText, DATE}}
    \cup {GeometryChild, Element(<<"{", "p", "}", "p", "a", "r", "t">>, NoText, Absent, Absent, <<NameChild>>)}

\* children of an indented document: the text of an element that has child
\* elements is the line break in front of its first child
IndentedGeometryChild ==
    Element(<<"{", "p", "}", "g", "e", "o", "m", "e", "t", "r", "y">>, <<"\n", " ">>, Absent, Absent,
            <<Child(<<"{", "g", "}", "P", "o", "i", "n", "t">>, NoText)>>)
IndentedPartChild ==
    Element(<<"{", "p", "}", "p", "a", "r", "t">>, <<"\n", " ">>, Absent, Absent, <<NameChild>>)

\* children with an xlink:href: one that also has a numeric text, a geometry
\* name and a child element, and one whose xlink:href is the empty string
LinkedGeometryChild ==
    Element(<<"{", "p", "}", "g", "e", "o", "m", "e", "t", "r", "y">>, <<"-", "5">>, Absent, LINK,
            <<Child(<<"{", "g", "}", "P", "o", "i", "n", "t">>, NoText)>>)
EmptyLinkChild ==
    Element(<<"{", "p", "}", "k", "i", "n", "d">>, NoText, Absent, <<>>, <<>>)

\* a feature without gml:id, and the containers of a GetFeature answer with
\* their content
UnidentifiedFeature ==
    Element(<<"{", "p", "}", "S", "i", "t", "e">>, NoText, Absent, Absent, <<NameChild>>)
MemberOf(feature) ==
    Element(<<"{", "w", "}", "m", "e", "m", "b", "e", "r">>, NoText, Absent, Absent, <<feature>>)
CollectionOf(members) ==
    Element(<<"{", "w", "}", "F", "e", "a", "t", "u", "r", "e", "C", "o", "l", "l", "e", "c", "t", "i", "o", "n">>,
            NoText, Absent, Absent, members)

\* sample payloads: None or '', text that is not well-formed XML, a document
\* without a feature, and documents with a feature; in the last kind the
\* member element may carry a gml:id of its own
SamplePayloads ==
    {NoSample, SampleDocument(FALSE, FeatureCollectionOf(<<NameChild>>)),
     SampleDocument(TRUE, <<CollectionElement>>),
     SampleDocument(TRUE, FeatureCollectionOf(<<IndentedGeometryChild, IndentedPartChild>>)),
     SampleDocument(TRUE, FeatureCollectionOf(<<LinkedGeometryChild, EmptyLinkChild>>)),
     SampleDocument(TRUE, Iter(CollectionOf(<<MemberOf(UnidentifiedFeature)>>))),
     SampleDocument(TRUE, Iter(CollectionOf(<<MemberOf(UnidentifiedFeature),
                                              MemberOf(FeatureElement(<<GeometryChild>>))>>))),
     SampleDocument(TRUE, Iter(CollectionOf(<<MemberOf(FeatureElement(<<NameChild>>)),
                                              MemberOf(FeatureElement(<<GeometryChild>>))>>)))}
    \cup {SampleDocument(TRUE, FeatureCollectionOf(children)) :
            children \in UpTo(SampleChildren, MaxChildren)}

\* namespace prefixes of feature types: those of the table of themes, and
\* prefixes that are not in it
ThemePrefixes ==
    {themes[i][1] : i \in 1..Len(themes)}
    \cup {<<>>, <<"g", "m", "l">>, <<"g", "e", "o">>, <<"b", "a", "s", "e">>}

\* the name of a feature type with a namespace prefix
ZoneOf(prefix) ==
    IF prefix = <<>> THEN <<"Z", "o", "n", "e">>
    ELSE prefix \o <<":", "Z", "o", "n", "e">>

InitParse ==
    /\ InitIdle
    /\ call \in {[fn |-> "parse_capabilities", arg |-> xml] : xml \in CapabilityPayloads}
             \cup {[fn |-> "extract_fields_from_sample", arg |-> sample] :
                      sample \in SamplePayloads}
             \cup {[fn |-> "determine_inspire_theme", arg |-> <<prefix, ZoneOf(prefix)>>] :
                      prefix \in ThemePrefixes}
    /\ ret = NotReturned

\* parse_capabilities(xml_content)
ParseCapabilities ==
    /\ call.fn = "parse_capabilities"
    /\ ~ret.returned
    /\ ret' = [returned |-> TRUE, raised |-> parse_capabilities(call.arg).raised,
               value |-> parse_capabilities(call.arg).feature_types]
    /\ UNCHANGED <<call, programVars>>

\* extract_fields_from_sample(xml_content, type_name)
ExtractFields ==
    /\ call.fn = "extract_fields_from_sample"
    /\ ~ret.returned
    /\ ret' = [returned |-> TRUE, raised |-> FALSE,
               value |-> extract_fields_from_sample(call.arg)]
    /\ UNCHANGED <<call, programVars>>

\* determine_inspire_theme(ft['namespace_prefix'], ft['name'])
DetermineInspireTheme ==
    /\ call.fn = "determine_inspire_theme"
    /\ ~ret.returned
    /\ ret' = [returned |-> TRUE, raised |-> FALSE,
               value |-> determine_inspire_theme(call.arg[1], call.arg[2])]
    /\ UNCHANGED <<call, programVars>>

NextParse == ParseCapabilities \/ ExtractFields \/ DetermineInspireTheme

SpecParse == InitParse /\ [][NextParse]_vars

(* ------------------------------------------------------------------ *)
(* SpecLookup: lookup_canonical_field on a name and on a respelling    *)
(* ------------------------------------------------------------------ *)

\* str.lower() and str.upper() of a letter, A-umlaut included
UnicodeLowerChar(c) == IF c = "Ä" THEN "ä" ELSE LowerChar(c)

UnicodeUpperChar(c) ==
    IF c = "ä" THEN "Ä"
    ELSE IF \E i \in 1..Len(LowerCase) : LowerCase[i] = c
         THEN UpperCase[CHOOSE i \in 1..Len(LowerCase) : LowerCase[i] = c]
         ELSE c

FoldCase(text) == [i \in 1..Len(text) |-> UnicodeLowerChar(text[i])]
UpperText(text) == [i \in 1..Len(text) |-> UnicodeUpperChar(text[i])]

\* a text with its first letter in the other case
SwapFirst(text) ==
    IF text = <<>> THEN text
    ELSE <<IF UnicodeLowerChar(text[1]) = text[1] THEN UnicodeUpperChar(text[1])
           ELSE UnicodeLowerChar(text[1])>> \o Tail(text)

\* the field names looked up: every registered synonym and names that are
\* not registered
LookupNames ==
    {field_synonyms[i].field_name : i \in 1..Len(field_synonyms)}
    \cup {<<"F", "l", "ä", "c", "h", "e">>, <<"f", "e", "l", "d">>, <<>>}

GEOM == <<"g", "e", "o", "m">>

\* the spellings of a name that differ from it in letter case only
Respellings(name) == {name, FoldCase(name), UpperText(name), SwapFirst(name)}

InitLookup ==
    /\ InitIdle
    /\ call \in UNION {{[fn |-> "lookup_canonical_field", arg |-> <<first, second>>] :
                            first \in Respellings(name),
                            second \in Respellings(name) \cup {GEOM, <<>>}} :
                        name \in LookupNames}
    /\ ret = NotReturned

\* what the calls made so far returned
Answers == IF ret.returned THEN ret.value ELSE <<>>

\* lookup_canonical_field(field_name), for the next of the names
LookupCanonicalField ==
    /\ call.fn = "lookup_canonical_field"
    /\ Len(Answers) < Len(call.arg)
    /\ ret' = [returned |-> TRUE, raised |-> FALSE,
               value |-> Append(Answers, lookup_canonical_field(call.arg[Len(Answers) + 1]))]
    /\ UNCHANGED <<call, programVars>>

NextLookup == LookupCanonicalField

SpecLookup == InitLookup /\ [][NextLookup]_vars

(* ------------------------------------------------------------------ *)
(* SpecCombine: handle_combine on the member datasets of a request     *)
(* ------------------------------------------------------------------ *)

NAME == <<"n", "a", "m", "e">>
FIELD_X == <<"x">>
FIELD_Y == <<"y">>

\* the datasets a request can select
MemberKinds ==
    {Member("Wien", {NAME, FIELD_X}, <<ServiceLink(WFS, "u1")>>),
     Member("Tirol", {NAME}, <<ServiceLink(WMS, "u2"), ServiceLink(WFS, "u3")>>),
     Member(None, {}, <<>>),
     Member("Wien", {FIELD_X}, <<ServiceLink(WMS, "u4")>>),
     Member("Kärnten", {FIELD_Y}, <<ServiceLink(WFS, "u5")>>)}

InitCombine ==
    /\ InitIdle
    /\ call \in {[fn |-> "handle_combine", arg |-> members] :
                    members \in UpTo(MemberKinds, MaxMembers)}
    /\ ret = NotReturned

\* GET /api/combine for a concept or a list of ids that selects these datasets
HandleCombine ==
    /\ call.fn = "handle_combine"
    /\ ~ret.returned
    /\ ret' = [returned |-> TRUE, raised |-> FALSE, value |-> handle_combine(call.arg)]
    /\ UNCHANGED <<call, programVars>>

NextCombine == HandleCombine

SpecCombine == InitCombine /\ [][NextCombine]_vars

(* ------------------------------------------------------------------ *)
(* SpecRerun: whole runs of run_schema_analysis, and combine requests  *)
(* on the tables they leave                                            *)
(* ------------------------------------------------------------------ *)

\* what a WFS endpoint may answer in a run: nothing, one feature type with
\* the fields name and geometry, or the same feature type with the field
\* name only
RerunReplies ==
    {ServiceReply(NoContent, NoSamples),
     ServiceReply(XmlDocument(TRUE, <<FeatureTypeElement(PsA, Absent, Absent, Absent)>>, <<>>),
                  <<SampleDocument(TRUE, FeatureCollectionOf(<<NameChild, GeometryChild>>)),
                    NoSample, NoSample>>),
     ServiceReply(XmlDocument(TRUE, <<FeatureTypeElement(PsA, Absent, Absent, Absent)>>, <<>>),
                  <<SampleDocument(TRUE, FeatureCollectionOf(<<NameChild>>)),
                    NoSample, NoSample>>)}

\* the orders in which n futures can complete
CompletionOrders(n) ==
    {order \in [1..n -> 1..n] : \A i, j \in 1..n : order[i] = order[j] => i = j}

\* the id lists a combine request can name
CombineIds == {<<"d1">>, <<"d2">>, <<"d1", "d2">>}

InitRerun ==
    /\ InitIdle
    /\ InitCallVars

\* run_schema_analysis(limit), from init_schema_tables to save_schema_results
RunSchemaAnalysis(limit) ==
    /\ runs < MaxRuns
    /\ \E replies \in [1..Len(get_wfs_services(dataset_services, limit)) -> RerunReplies] :
       \E order \in CompletionOrders(Len(get_wfs_services(dataset_services, limit))) :
           LET selected == get_wfs_services(dataset_services, limit)
               done     == [k \in 1..Len(selected) |->
                               process_service(selected[order[k]], replies[order[k]])]
           IN  /\ pool_services' = selected
               /\ pool_results' = done
               /\ wfs_feature_types' = save_schema_results(wfs_feature_types, done)
    /\ runs' = runs + 1
    /\ UNCHANGED <<callVars, trackerVars, calls, batchVars, pool_pc, futures>>

\* GET /api/combine?ids=...
CombineStored(ids) ==
    /\ ~ret.returned
    /\ call' = [fn |-> "handle_combine", arg |-> ids]
    /\ ret' = [returned |-> TRUE, raised |-> FALSE,
               value |-> handle_combine([k \in 1..Len(ids) |->
                            JoinedMember(wfs_feature_types, dataset_services, ids[k])])]
    /\ UNCHANGED programVars

NextRerun ==
    \/ \E limit \in PoolLimits : RunSchemaAnalysis(limit)
    \/ \E ids \in CombineIds : CombineStored(ids)

SpecRerun == InitRerun /\ [][NextRerun]_vars

(* ------------------------------------------------------------------ *)
(* Claims about update_service_status (SpecStatus)                     *)
(* ------------------------------------------------------------------ *)

\* the calls made for one URL, oldest first
CallsFor(url) == SelectSeq(calls, LAMBDA c : c.url = url)

\* those of them that came with a discovery result
DiscoveriesFor(url) == SelectSeq(calls, LAMBDA c : c.url = url /\ Truthy(c.result))

Last(s) == s[Len(s)]

\* the stored field list of a URL, NULL when it has no row
StoredFields(tbl, url) ==
    IF url \in DOMAIN tbl THEN tbl[url].sample_fields ELSE NoneResult

\* a JSON text of a list with at least one field
NonEmptyFieldList(text) == text # NoneResult /\ text.json # <<>>

\* C1: an attempt that fails (no discovery result, only an error) leaves the
\* stored field list of its URL's record as it was; a stored non-empty list is
\* not replaced by NULL or by an empty list because of a failing attempt
C1_FailingAttemptKeepsFields ==
    [][\A url \in Urls :
          (/\ Len(calls') = Len(calls) + 1
           /\ Last(calls').url = url
           /\ ~Truthy(Last(calls').result))
          => /\ StoredFields(service_status', url) = StoredFields(service_status, url)
             /\ \A other \in Urls \ {url} :
                    StoredFields(service_status', other) = StoredFields(service_status, other)]_vars

C1_Witness ==
    /\ Len(calls) >= 2
    /\ ~Truthy(Last(calls).result)
    /\ Truthy(calls[Len(calls) - 1].result)
    /\ calls[Len(calls) - 1].url = Last(calls).url
    /\ service_status[Last(calls).url].status # "working"
    /\ service_status[Last(calls).url].sample_fields = json_dumps(<<"name", "geometry">>)

\* C2: once the record of a URL holds a non-empty field list, it never
\* afterwards holds an empty list or NULL, whatever the outcome of the attempts
C2_NonEmptyFieldsStay ==
    [][\A url \in Urls :
          NonEmptyFieldList(StoredFields(service_status, url))
          => NonEmptyFieldList(StoredFields(service_status', url))]_vars

C4_CountersCountAttempts ==
    \A url \in DOMAIN service_status :
        /\ service_status[url].check_count = Len(CallsFor(url))
        /\ service_status[url].success_count =
               Len(SelectSeq(CallsFor(url), LAMBDA c : c.status = "working"))
        /\ service_status[url].check_count >= 1

C4_Witness ==
    /\ "u1" \in DOMAIN service_status
    /\ service_status["u1"].check_count = 3
    /\ service_status["u1"].success_count = 1
    /\ Last(CallsFor("u1")).status = "error"

(* ------------------------------------------------------------------ *)
(* Claims about inspect_services (SpecBatch)                           *)
(* ------------------------------------------------------------------ *)

\* the last attempt of the running batch on a URL
LastAttemptOn(url) == Last(SelectSeq(attempts, LAMBDA a : a.url = url))

\* C5: the status stored and returned is 'working' exactly when the attempt
\* came with a discovery result, 'timeout' exactly when it failed because a
\* request timed out, and 'error' for every other failure
C5_StatusClassification ==
    /\ \A i \in 1..Len(attempts) :
           LET a == attempts[i]
           IN  /\ a.status \in {"working", "timeout", "error"}
               /\ a.status = "working" <=> Truthy(a.result)
               /\ a.status = "timeout" <=> (~Truthy(a.result) /\ a.timed_out)
               /\ a.status = "error" <=> (~Truthy(a.result) /\ ~a.timed_out)
               /\ service_status[a.url].status = LastAttemptOn(a.url).status
    /\ \A url \in DOMAIN service_status :
           service_status[url].status \in {"working", "timeout", "error"}

C5_Witness ==
    /\ Len(attempts) = 4
    /\ attempts[1].status = "timeout" /\ attempts[1].timed_out
    /\ attempts[2].status = "working"
    /\ attempts[3].status = "error" /\ attempts[3].error = "Could not parse response"
    /\ attempts[4].status = "error" /\ attempts[4].error = "Unknown service type"
    /\ service_status[attempts[1].url].status = "working"
    /\ service_status[attempts[4].url].status = "error"

\* the sum of check_count over the rows of service_status
RECURSIVE SumCheckCount(_, _)
SumCheckCount(tbl, urls) ==
    IF urls = {} THEN 0
    ELSE LET u == CHOOSE x \in urls : TRUE
         IN  tbl[u].check_count + SumCheckCount(tbl, urls \ {u})

\* no exception leaves the loop; it makes one update_service_status call per
\* selected service, in the order of the selection
C6_EveryServiceProcessed ==
    /\ pc # "aborted"
    /\ pc = "running" => (idx <= Len(services) + 1 /\ Len(attempts) = idx - 1)
    /\ pc = "returned" => Len(attempts) = Len(services)
    /\ \A i \in 1..Len(attempts) : attempts[i].url = services[i][2]
    /\ SumCheckCount(service_status, DOMAIN service_status) = FeedbackRows(feedback)

\* C6: a run of inspect_services is not aborted by the outcome of a service
\* (timeout, connection failure, HTTP error, malformed document, no feature
\* types, no features, unsupported service type): the loop makes exactly one
\* update_service_status call per selected service, in the order of the
\* selection, and every started run returns
C6_BatchProcessesEverySelectedService ==
    /\ []C6_EveryServiceProcessed
    /\ (pc = "running") ~> (pc = "returned")

C6_Witness ==
    /\ pc = "returned"
    /\ Len(services) = 4
    /\ Len(attempts) = 4
    /\ attempts[1].error = "Timeout"
    /\ attempts[2].error = "Connection refused"
    /\ attempts[3].error = "syntax error: line 1, column 0"
    /\ attempts[4].error = "Unknown service type"

Count(s, Test(_)) == Len(SelectSeq(s, Test))

\* C8: at the end of a batch success + failed + timeout is the number of
\* selected services, and the tallies are the numbers of services whose
\* status recorded in the batch is 'working', 'error' and 'timeout'
C8_TalliesMatchStatuses ==
    /\ results.success = Count(attempts, LAMBDA a : a.status = "working")
    /\ results.failed  = Count(attempts, LAMBDA a : a.status = "error")
    /\ results.timeout = Count(attempts, LAMBDA a : a.status = "timeout")
    /\ pc = "returned" =>
           results.success + results.failed + results.timeout = Len(services)

C8_Witness ==
    /\ pc = "returned"
    /\ Len(services) = 3
    /\ attempts[1].status = "timeout"
    /\ attempts[2].status = "error"
    /\ attempts[3].status = "working"
    /\ results = [success |-> 1, failed |-> 1, timeout |-> 1]

\* C9: the selection of a batch contains each service URL at most once
C9_SelectionHasEachUrlOnce ==
    pc = "running" =>
        \A i, j \in 1..Len(services) : i # j => services[i][2] # services[j][2]

\* the hours since the last check of a URL that has a row
HoursSinceChecked(url) == now - ParseTimestamp(service_status[url].last_checked)

\* C10: with a limit that does not cut the selection, a service of a requested
\* type is selected if and only if it has no Service Status Record or its
\* last check is older than skip_recent_hours
C10_SelectedIffAbsentOrOlderThanWindow ==
    (pc = "running" /\ idx = 1 /\ args.limit >= Len(dataset_services)) =>
        \A k \in 1..Len(dataset_services) :
            LET row == dataset_services[k]
            IN  row.service_type \in args.service_types =>
                    ((\E i \in 1..Len(services) : services[i][2] = row.url)
                     <=> (\/ row.url \notin DOMAIN service_status
                          \/ HoursSinceChecked(row.url) > args.skip_recent_hours))

(* ------------------------------------------------------------------ *)
(* Claims about run_schema_analysis (SpecPool)                         *)
(* ------------------------------------------------------------------ *)

\* C7: a failure while one service is processed is confined to that service:
\* the run is not aborted, and the results of all services are collected
\* before they are saved
C7_FailureConfinedToItsService ==
    /\ pool_pc \notin {"aborting", "aborted"}
    /\ pool_pc = "saved" => Len(pool_results) = Len(pool_services)

\* the capability fetch of a service answered, and the answer is a
\* well-formed document with FeatureType elements
CapabilitiesSucceeded(reply) ==
    /\ ~reply.caps.empty
    /\ reply.caps.wellformed
    /\ (reply.caps.wfs20 # <<>> \/ reply.caps.wfs11 # <<>>)

\* the sample fetch answered with a well-formed document
SampleSucceeded(sample) == ~sample.empty /\ sample.wellformed

\* the rows a save adds to wfs_feature_types
SavedRows == SubSeq(wfs_feature_types', Len(wfs_feature_types) + 1, Len(wfs_feature_types'))

\* C11: every feature-type row a run persists comes from a service of that run
\* whose capability fetch and parse succeeded, every field row comes from a
\* successful sample fetch for its feature type, and a service whose pipeline
\* failed contributes no feature-type row (and so no field row)
C11_RowsOnlyFromSuccessfulFetches ==
    [][(pool_pc = "running" /\ pool_pc' = "saved") =>
          /\ \A k \in 1..Len(SavedRows) :
                 \E i \in 1..Len(futures) :
                     /\ pool_services[i][1] = SavedRows[k].service_id
                     /\ CapabilitiesSucceeded(futures[i].reply)
                     /\ \E j \in 1..Len(futures[i].result.feature_types) :
                            /\ j <= MaxFeatureTypes
                            /\ futures[i].result.feature_types[j].name = SavedRows[k].type_name
                            /\ SavedRows[k].fields # <<>> =>
                                   SampleSucceeded(futures[i].reply.samples[j])
          /\ \A i \in 1..Len(futures) :
                 ~CapabilitiesSucceeded(futures[i].reply) =>
                     \A k \in 1..Len(SavedRows) :
                         SavedRows[k].service_id # pool_services[i][1]]_vars

\* a saved run with a service that failed and a service that persisted a
\* feature type with fields and one without
C11_Witness ==
    /\ pool_pc = "saved"
    /\ \E i \in 1..Len(futures) : futures[i].reply.caps.empty
    /\ \E k \in 1..Len(wfs_feature_types) : wfs_feature_types[k].fields # <<>>
    /\ \E k \in 1..Len(wfs_feature_types) : wfs_feature_types[k].fields = <<>>

\* the futures whose process_service has ended with a result
Processed == {i \in 1..Len(futures) : /\ futures[i].state \in {"done", "collected"}
                                      /\ ~futures[i].result.raised}

\* the number of feature types process_service samples
SampledTypes(reply) == Min(MaxFeatureTypes, Len(parse_capabilities(reply.caps).feature_types))

\* C12: when the sample fetch for a feature type fails, process_service goes
\* on: the feature type is recorded with zero fields, every other one of the
\* first 3 feature types is still sampled, and the result carries no error
C12_FailedSampleDoesNotStopTheService ==
    \A i \in Processed :
        LET reply  == futures[i].reply
            result == futures[i].result
        IN  (CapabilitiesSucceeded(reply) /\ SampledTypes(reply) > 0) =>
                /\ result.error = None
                /\ Len(result.feature_types) = SampledTypes(reply)
                /\ \A j \in 1..SampledTypes(reply) :
                       IF reply.samples[j].empty
                       THEN result.feature_types[j].fields = <<>>
                       ELSE result.feature_types[j].fields
                                = extract_fields_from_sample(reply.samples[j])

\* a service with four feature types: the second sample fails, the third is
\* still sampled and has fields, the fourth is not sampled
C12_Witness ==
    \E i \in Processed :
        /\ Len(parse_capabilities(futures[i].reply.caps).feature_types) > MaxFeatureTypes
        /\ futures[i].reply.samples[2].empty
        /\ Len(futures[i].result.feature_types) = MaxFeatureTypes
        /\ futures[i].result.feature_types[2].fields = <<>>
        /\ futures[i].result.feature_types[3].fields # <<>>
        /\ futures[i].result.error = None

(* ------------------------------------------------------------------ *)
(* Claims about the field lists of schema extraction                   *)
(* ------------------------------------------------------------------ *)

\* a list holds each of its elements once
EachOnce(list) == \A i, j \in 1..Len(list) : list[i] = list[j] => i = j

\* C13: every field list a discovery of inspect_services produces for one
\* feature type or collection (GeoJSON property keys plus 'geometry', or the
\* children of the first GML member) contains each field name at most once
C13_FieldNamesAtMostOnce ==
    \A k \in 1..Len(attempts) :
        Truthy(attempts[k].result) => EachOnce(attempts[k].result.fields)

\* C14: for every capabilities or sample payload (None, empty, not
\* well-formed, or well-formed with missing namespaces or with missing or
\* empty Name elements) parse_capabilities and extract_fields_from_sample
\* return a list and do not raise
C14_ParsersReturnAList ==
    ret.returned => ~ret.raised

\* the children of the sample's feature that the call made a field of,
\* in the order of the fields
FieldChildren ==
    LET features == SelectSeq(call.arg.elements, LooksLikeFeature)
    IN  IF call.arg.empty \/ ~call.arg.wellformed \/ features = <<>> THEN <<>>
        ELSE FirstOccurrences(features[1].children, {})

\* C19: a field whose sample text starts with four digits, a dash, two
\* digits, a dash and two digits is typed from its text as dateTime, never as
\* integer or decimal (only an xlink:href on the element, which marks a code
\* list whatever the text is, replaces that type)
C19_DateTextIsDateTime ==
    (call.fn = "extract_fields_from_sample" /\ ret.returned) =>
        /\ Len(ret.value) = Len(FieldChildren)
        /\ \A k \in 1..Len(ret.value) :
               (HasText(FieldChildren[k].text) /\ MatchesDate(FieldChildren[k].text)) =>
                   /\ ret.value[k].type \notin {"integer", "decimal"}
                   /\ ~HasValue(FieldChildren[k].href) => ret.value[k].type = "dateTime"

\* the sample '2024-01-01.' was typed, and so was the sample '2024-01-01'
\* of an element with an xlink:href
C19_Witness ==
    /\ call.fn = "extract_fields_from_sample"
    /\ ret.returned
    /\ Len(ret.value) = 2
    /\ ret.value[1].sample_value = DATE \o <<".">>
    /\ ret.value[1].type = "dateTime"
    /\ ret.value[2].sample_value = DATE
    /\ ret.value[2].type = "codelist"

(* ------------------------------------------------------------------ *)
(* Claims about lookup_canonical_field (SpecLookup)                    *)
(* ------------------------------------------------------------------ *)

\* the outcome of a lookup: the canonical id, or not found
Outcome(answer) == IF answer = NoneResult THEN "not found" ELSE answer.canonical_id

SHAPE == <<"s", "h", "a", "p", "e">>

\* C15: lookup_canonical_field has the same outcome for two field names that
\* differ only in letter case, and every spelling of 'shape' resolves to the
\* canonical id 'geometry'
C15_LookupIgnoresCase ==
    (call.fn = "lookup_canonical_field" /\ Len(Answers) = 2) =>
        /\ FoldCase(call.arg[1]) = FoldCase(call.arg[2]) =>
               Outcome(ret.value[1]) = Outcome(ret.value[2])
        /\ \A k \in 1..2 :
               FoldCase(call.arg[k]) = SHAPE => Outcome(ret.value[k]) = "geometry"

\* 'Shape' and 'shape' were looked up
C15_Witness ==
    /\ call.fn = "lookup_canonical_field"
    /\ Len(Answers) = 2
    /\ call.arg[1] # call.arg[2]
    /\ call.arg[2] = SHAPE
    /\ FoldCase(call.arg[1]) = SHAPE
    /\ Outcome(ret.value[2]) = "geometry"

(* ------------------------------------------------------------------ *)
(* Claims about handle_combine (SpecCombine)                           *)
(* ------------------------------------------------------------------ *)

Combined == call.fn = "handle_combine" /\ ret.returned

\* the member datasets that have any discovered field, and those exposing a field
WithFields == {i \in 1..Len(call.arg) : call.arg[i].field_names # {}}
Exposing(f) == {i \in 1..Len(call.arg) : f \in call.arg[i].field_names}

MemberProvinces == {call.arg[i].province : i \in 1..Len(call.arg)} \ {None}

\* C17: missing_provinces is the 9-province set minus the provinces of the
\* member datasets; covered and missing provinces are disjoint and together
\* make up the 9-province set
C17_MissingProvinces ==
    Combined =>
        /\ Cardinality(all_provinces) = 9
        /\ ret.value.missing_provinces = all_provinces \ MemberProvinces
        /\ ret.value.provinces_covered \cap ret.value.missing_provinces = {}
        /\ ret.value.provinces_covered \cup ret.value.missing_provinces = all_provinces

\* datasets that cover only Wien and Tirol: the other 7 are missing
C17_Witness ==
    /\ Combined
    /\ MemberProvinces = {"Wien", "Tirol"}
    /\ Cardinality(ret.value.missing_provinces) = 7
    /\ ret.value.missing_provinces \cap {"Wien", "Tirol"} = {}

\* the member datasets with a WFS endpoint among their services
ExposingWfs ==
    {i \in 1..Len(call.arg) :
        \E k \in 1..Len(call.arg[i].services) : call.arg[i].services[k].service_type = WFS}

\* C18: combinable is true if and only if at least two member datasets
\* expose a WFS endpoint, and the combination prompt is produced exactly then
C18_CombinableIffTwoWfs ==
    Combined =>
        /\ ret.value.combinable <=> Cardinality(ExposingWfs) >= 2
        /\ ret.value.combination_prompt <=> ret.value.combinable

\* one member dataset with a WFS endpoint among several: not combinable
C18_Witness ==
    /\ Combined
    /\ Len(call.arg) >= 2
    /\ Cardinality(ExposingWfs) = 1
    /\ ~ret.value.combinable
    /\ ~ret.value.combination_prompt

(* ------------------------------------------------------------------ *)
(* Claims about get_schema_for_dataset (SpecStatus)                    *)
(* ------------------------------------------------------------------ *)

\* some attempt on the URL was working
EverWorked(url) == \E i \in 1..Len(calls) : calls[i].url = url /\ calls[i].status = "working"

\* C20: a Service Status Record has a field list if and only if at least one
\* attempt on its URL was working, which is when its success_count is at
\* least 1; get_schema_for_dataset returns fields = None exactly for the
\* services that never succeeded
C20_FieldsIffEverWorked ==
    /\ \A url \in DOMAIN service_status :
           /\ service_status[url].sample_fields # NoneResult <=> EverWorked(url)
           /\ service_status[url].success_count >= 1 <=> EverWorked(url)
    /\ \A d \in DatasetIds :
           LET schema == get_schema_for_dataset(service_status, d)
           IN  \A k \in 1..Len(schema) :
                   schema[k].fields = NoneResult <=> ~EverWorked(schema[k].url)

\* a dataset with a service that worked once and failed afterwards, and a
\* service that never worked
C20_Witness ==
    LET schema == get_schema_for_dataset(service_status, "d1")
    IN  /\ Len(schema) = 2
        /\ Len(calls) = 3
        /\ schema[1].fields = [list |-> <<"name">>]
        /\ schema[1].successes = 1
        /\ schema[2].status = "timeout"
        /\ schema[2].fields = NoneResult
        /\ schema[2].successes = 0

(* ------------------------------------------------------------------ *)
(* Claims about the typing of fields (SpecParse)                       *)
(* ------------------------------------------------------------------ *)

\* a text, stripped, matches none of the four value patterns
MatchesNoPattern(child_text) ==
    LET text == Strip(child_text)
    IN  /\ ~MatchesInteger(text)
        /\ ~MatchesDecimal(text)
        /\ ~MatchesDate(text)
        /\ ~IsBooleanText(text)

\* the type the checks give in the order integer, decimal, dateTime, boolean,
\* geometry, complex, string
OrderedType(child) ==
    IF child.text # NoText /\ ~MatchesNoPattern(child.text) THEN TextType(child.text)
    ELSE IF IsGeom(child.tag) THEN "geometry"
    ELSE IF Len(child.children) > 0 THEN "complex"
    ELSE "string"

\* C21: the type of a field without xlink:href is found by the checks
\* integer, decimal, dateTime, boolean on its text, then geometry, then
\* complex, else string: a field whose text (also the whitespace around its
\* child elements) matches none of the four patterns is typed geometry when
\* it is flagged geometric, otherwise complex when it has child elements,
\* otherwise string
C21_TypeInferenceOrder ==
    (call.fn = "extract_fields_from_sample" /\ ret.returned) =>
        /\ Len(ret.value) = Len(FieldChildren)
        /\ \A k \in 1..Len(ret.value) :
               ~HasValue(FieldChildren[k].href) =>
                   ret.value[k].type = OrderedType(FieldChildren[k])

\* C22 as stated: a child that carries an xlink:href attribute, whatever
\* the value of the attribute, is typed codelist whatever its text, its
\* geometry flag and its child elements
C22_EveryLinkIsCodelist ==
    (call.fn = "extract_fields_from_sample" /\ ret.returned) =>
        /\ Len(ret.value) = Len(FieldChildren)
        /\ \A k \in 1..Len(ret.value) :
               FieldChildren[k].href # Absent => ret.value[k].type = "codelist"

\* C22: a child that carries an xlink:href attribute with a value other
\* than the empty string is typed codelist whatever its text, its geometry
\* flag and its child elements
C22_LinkIsCodelist ==
    (call.fn = "extract_fields_from_sample" /\ ret.returned) =>
        /\ Len(ret.value) = Len(FieldChildren)
        /\ \A k \in 1..Len(ret.value) :
               (FieldChildren[k].href # Absent /\ FieldChildren[k].href # <<>>) =>
                   ret.value[k].type = "codelist"

\* a field with an xlink:href, a numeric text, a geometry name and a child
\* element was typed codelist
C22_Witness ==
    /\ call.fn = "extract_fields_from_sample"
    /\ ret.returned
    /\ Len(ret.value) = 2
    /\ FieldChildren[1] = LinkedGeometryChild
    /\ ret.value[1].is_geometry
    /\ ret.value[1].sample_value = <<"-", "5">>
    /\ ret.value[1].type = "codelist"

(* ------------------------------------------------------------------ *)
(* Claims about the feature the extractor reads (SpecParse)            *)
(* ------------------------------------------------------------------ *)

\* an element is a child of a member or FeatureCollection element of the
\* document
InsideContainer(elements, i) ==
    \E j \in 1..Len(elements) :
        /\ IsContainer(elements[j])
        /\ \E k \in 1..Len(elements[j].children) : elements[j].children[k] = elements[i]

\* the places of the elements that are a feature instance: not a container,
\* and with a gml:id or inside a container
FeaturePlaces(elements) ==
    {i \in 1..Len(elements) :
        /\ ~IsContainer(elements[i])
        /\ HasValue(elements[i].gml_id) \/ InsideContainer(elements, i)}

\* the names of the direct children of the first feature instance, each once
ExpectedFieldNames(elements) ==
    IF FeaturePlaces(elements) = {} THEN <<>>
    ELSE LET first == CHOOSE i \in FeaturePlaces(elements) :
                          \A j \in FeaturePlaces(elements) : i <= j
             kept  == FirstOccurrences(elements[first].children, {})
         IN  [k \in 1..Len(kept) |-> LocalName(kept[k].tag)]

\* C23: the fields of a well-formed document are the direct children of the
\* first element, in document order, that carries a gml:id or sits inside a
\* member or FeatureCollection container without being a container itself:
\* a feature inside a member is found with or without a gml:id, and only
\* the first feature is read
C23_FirstFeatureInstance ==
    (call.fn = "extract_fields_from_sample" /\ ret.returned /\ ~call.arg.empty
        /\ call.arg.wellformed) =>
        /\ Len(ret.value) = Len(ExpectedFieldNames(call.arg.elements))
        /\ \A k \in 1..Len(ret.value) :
               ret.value[k].name = ExpectedFieldNames(call.arg.elements)[k]

(* ------------------------------------------------------------------ *)
(* Claims about ambiguous synonyms (SpecLookup)                        *)
(* ------------------------------------------------------------------ *)

VALID_FROM == <<"V", "a", "l", "i", "d", "F", "r", "o", "m">>

\* the places in the registration order of the synonyms that are a field
\* name up to letter case
RegisteredAt(field_name) ==
    {i \in 1..Len(field_synonyms) :
        FoldCase(field_synonyms[i].field_name) = FoldCase(field_name)}

\* a field name registered under more than one canonical field
IsAmbiguous(field_name) ==
    \E i, j \in RegisteredAt(field_name) :
        field_synonyms[i].canonical_id # field_synonyms[j].canonical_id

FirstRegistered(field_name) ==
    field_synonyms[CHOOSE i \in RegisteredAt(field_name) :
                       \A j \in RegisteredAt(field_name) : i <= j]

\* C24: for a field name that is, up to letter case, a synonym of more than
\* one canonical field, lookup_canonical_field answers with the synonym that
\* is first in the registration order of FIELD_MAPPINGS, and two calls with
\* the same name have the same answer
C24_FirstRegisteredSynonymWins ==
    call.fn = "lookup_canonical_field" =>
        /\ \A k \in 1..Len(Answers) :
               IsAmbiguous(call.arg[k]) =>
                   /\ ret.value[k] # NoneResult
                   /\ ret.value[k].canonical_id = FirstRegistered(call.arg[k]).canonical_id
                   /\ ret.value[k].source = FirstRegistered(call.arg[k]).source
        /\ (Len(Answers) = 2 /\ call.arg[1] = call.arg[2]) => ret.value[1] = ret.value[2]

\* 'ValidFrom', registered under begin_lifespan and under legal_date, was
\* looked up twice
C24_Witness ==
    /\ call.fn = "lookup_canonical_field"
    /\ Len(Answers) = 2
    /\ call.arg = <<VALID_FROM, VALID_FROM>>
    /\ IsAmbiguous(VALID_FROM)
    /\ ret.value[1].canonical_id = "begin_lifespan"
    /\ ret.value[2].canonical_id = "begin_lifespan"

(* ------------------------------------------------------------------ *)
(* Claims about combine requests after repeated runs (SpecRerun)       *)
(* ------------------------------------------------------------------ *)

\* the results of the latest run for a dataset that have no error
LatestResults(dataset_id) ==
    {i \in 1..Len(pool_results) :
        pool_results[i].dataset_id = dataset_id /\ pool_results[i].error = None}

\* the field names the latest run discovered for a dataset
LatestFields(dataset_id) ==
    UNION {UNION {{pool_results[i].feature_types[t].fields[k].name :
                      k \in 1..Len(pool_results[i].feature_types[t].fields)} :
                  t \in 1..Len(pool_results[i].feature_types)} :
              i \in LatestResults(dataset_id)}

\* the dataset has feature types of some run, and of the latest run
EverDiscovered(dataset_id) ==
    \E i \in 1..Len(wfs_feature_types) : wfs_feature_types[i].dataset_id = dataset_id
LatestDiscovered(dataset_id) ==
    \E i \in LatestResults(dataset_id) : pool_results[i].feature_types # <<>>

\* the answer of a combine request holds, for every dataset the latest run
\* discovered, only fields of that run
OnlyLatestFields ==
    /\ \A k \in 1..Len(call.arg) :
           LatestDiscovered(call.arg[k]) =>
               \A w \in 1..Len(ret.value.wfs_services) :
                   ret.value.wfs_services[w].id = k =>
                       ret.value.wfs_services[w].fields \subseteq LatestFields(call.arg[k])
    /\ (\A k \in 1..Len(call.arg) :
            EverDiscovered(call.arg[k]) => LatestDiscovered(call.arg[k])) =>
           ret.value.all_fields
               \subseteq UNION {LatestFields(call.arg[k]) : k \in 1..Len(call.arg)}

\* C25: handle_combine aggregates for each dataset only the field set of the
\* most recent discovery: a field that only an earlier run found for the
\* dataset is neither in the dataset's field set nor in all_fields
C25_CombineReadsLatestFieldSet ==
    [][(~ret.returned /\ ret'.returned) => OnlyLatestFields']_vars

\* C30: whatever the number of runs of run_schema_analysis, the stored
\* schema has at most one feature-type row for a service and a type name,
\* and at most one field row for a feature-type row and a field name
C30_RerunKeepsOneRowPerType ==
    /\ \A i, j \in 1..Len(wfs_feature_types) :
           (/\ wfs_feature_types[i].service_id = wfs_feature_types[j].service_id
            /\ wfs_feature_types[i].type_name = wfs_feature_types[j].type_name) => i = j
    /\ \A i \in 1..Len(wfs_feature_types) :
           \A k, m \in 1..Len(wfs_feature_types[i].fields) :
               wfs_feature_types[i].fields[k].name = wfs_feature_types[i].fields[m].name
                   => k = m

(* ------------------------------------------------------------------ *)
(* Claims about determine_inspire_theme (SpecParse)                    *)
(* ------------------------------------------------------------------ *)

\* the theme the table registers for a prefix, None for a prefix that is
\* not in the table
RegisteredTheme(prefix) ==
    IF \E i \in 1..Len(themes) : themes[i][1] = prefix
    THEN themes[CHOOSE i \in 1..Len(themes) : themes[i][1] = prefix][2]
    ELSE None

\* C26: determine_inspire_theme gives a feature type with namespace prefix p
\* the theme that the table registers for p, for every prefix of the table
\* (am, elu, lu, plu, ps, hy, ad, cp, au, gn, el, tn, bu, so, ge, ef, sr,
\* hb), and no theme for a prefix that is not in the table
C26_ThemeOfNamespacePrefix ==
    (call.fn = "determine_inspire_theme" /\ ret.returned) =>
        ret.value = RegisteredTheme(call.arg[1])

(* ------------------------------------------------------------------ *)
(* Claims about the order of a batch (SpecBatch)                       *)
(* ------------------------------------------------------------------ *)

\* row a has to come before row b: an OGC-API service before a WFS service,
\* and within one kind the higher gem score first
ComesBefore(a, b) ==
    \/ a[3] = "OGC-API" /\ b[3] = "WFS"
    \/ a[3] = b[3] /\ datasets[a[1]].gem_score > datasets[b[1]].gem_score

\* the selection of the batch that starts: in order, at most limit services,
\* and no service that is due was left out in favour of one that comes later
SelectionIsPrefix ==
    LET due == SelectedRows(dataset_services, service_status, args.service_types,
                            args.skip_recent_hours, now)
    IN  /\ \A i, j \in 1..Len(services) : i < j => ~ComesBefore(services[j], services[i])
        /\ Len(services) = Min(args.limit, Cardinality(due))
        /\ Range(services) \subseteq due
        /\ \A row \in due \ Range(services) :
               \A i \in 1..Len(services) : ~ComesBefore(row, services[i])

\* the services inspected so far are the first of the selection, in its order
InspectedInOrder ==
    /\ Len(attempts) <= Len(services)
    /\ \A k \in 1..Len(attempts) : attempts[k].url = services[k][2]

\* C27: the selection of a batch has every OGC-API service before every WFS
\* service and, within one kind, the higher gem scores first; with the limit
\* L it is the first L services of that order (all of them when fewer are
\* due), and the services are inspected in exactly that order
C27_InspectedInSelectionOrder ==
    [][/\ (pc # "running" /\ pc' = "running") => SelectionIsPrefix'
       /\ InspectedInOrder']_vars

\* a batch with the limit SmallLimit inspected the two services of the
\* highest rank while a third one was due
C27_Witness ==
    /\ pc = "returned"
    /\ args.limit = 2
    /\ Len(attempts) = 2
    /\ services[1][3] = "OGC-API" /\ services[1][1] = "d1"
    /\ services[2][3] = "OGC-API" /\ services[2][1] = "d2"
    /\ service_status = <<>> \/ "u2" \notin DOMAIN service_status

(* ------------------------------------------------------------------ *)
(* Claims about the pipeline of one service (SpecPool)                 *)
(* ------------------------------------------------------------------ *)

\* the samples of an ended process_service were only asked for after a
\* capability fetch that answered and a parse that gave feature types, and
\* only for the first of those types
SamplingFollowsCapabilities(future) ==
    LET parsed == parse_capabilities(future.reply.caps)
    IN  future.requests # <<>> =>
            /\ ~future.reply.caps.empty
            /\ ~parsed.raised
            /\ Len(parsed.feature_types) >= Len(future.requests)
            /\ Len(future.requests) <= MaxFeatureTypes
            /\ \A k \in 1..Len(future.requests) :
                   future.requests[k] = parsed.feature_types[k].name

\* the futures whose process_service ends in the step
EndingNow ==
    IF Len(futures') # Len(futures) THEN {}
    ELSE {i \in 1..Len(futures) : futures[i].state = "running" /\ futures'[i].state = "done"}

\* the step persists the outcome of every service of the run, each once,
\* after process_service has ended for every service
PersistsFinishedPipelines ==
    /\ \A i \in 1..Len(futures) : futures[i].state = "collected" /\ ~futures[i].result.raised
    /\ \A i \in 1..Len(futures) :
           Len(SelectSeq(SavedRows, LAMBDA row : row.service_id = pool_services[i][1]))
               = IF futures[i].result.error = None
                 THEN Len(futures[i].requests) ELSE 0
    /\ Len(wfs_feature_types') >= Len(wfs_feature_types)
    /\ SubSeq(wfs_feature_types', 1, Len(wfs_feature_types)) = wfs_feature_types

\* C28: in the pipeline of a service no feature sample is asked for unless
\* the capability fetch succeeded and gave at least one feature type, and the
\* outcome of a service is persisted only in a step that follows the end of
\* its extraction, once per run, never from a pipeline that did not finish
C28_SamplingThenPersistence ==
    [][/\ \A i \in EndingNow : SamplingFollowsCapabilities(futures'[i])
       /\ wfs_feature_types' # wfs_feature_types => PersistsFinishedPipelines]_vars

\* a run was saved in which one service was sampled for three feature types
\* and another was not sampled because its capability fetch failed
C28_Witness ==
    /\ pool_pc = "saved"
    /\ \E i \in 1..Len(futures) : Len(futures[i].requests) = MaxFeatureTypes
    /\ \E i \in 1..Len(futures) : futures[i].reply.caps.empty /\ futures[i].requests = <<>>
    /\ wfs_feature_types # <<>>

(* ------------------------------------------------------------------ *)
(* Claims about the attribution of a record (SpecStatus)               *)
(* ------------------------------------------------------------------ *)

\* C29: the record of a URL stays attributed to the dataset and the service
\* type of the first attempt made for the URL, also when a later attempt
\* comes on behalf of another dataset or service type; an attempt on a URL
\* that has a record changes neither of the two, while status, error
\* message, last-checked time and check_count are those of the new attempt
C29_ConflictKeepsAttribution ==
    /\ \A url \in DOMAIN service_status :
           /\ service_status[url].dataset_id = CallsFor(url)[1].dataset_id
           /\ service_status[url].service_type = CallsFor(url)[1].service_type
    /\ (calls # <<>> /\ Len(CallsFor(Last(calls).url)) > 1) =>
           LET row == service_status[Last(calls).url]
           IN  /\ row.status = Last(calls).status
               /\ row.error_message = Last(calls).error
               /\ ParseTimestamp(row.last_checked) = Last(calls).at
               /\ row.check_count = Len(CallsFor(Last(calls).url))

\* u1 was first attempted for d1 as WFS and then for d2 as OGC-API, with a
\* timeout: the record is still the one of d1 and WFS, with the new status
C29_Witness ==
    /\ Len(CallsFor("u1")) = 2
    /\ CallsFor("u1")[1].dataset_id = "d1" /\ CallsFor("u1")[1].service_type = "WFS"
    /\ CallsFor("u1")[1].status = "working"
    /\ CallsFor("u1")[2].dataset_id = "d2" /\ CallsFor("u1")[2].service_type = "OGC-API"
    /\ CallsFor("u1")[2].error = "Timeout"
    /\ service_status["u1"].dataset_id = "d1"
    /\ service_status["u1"].service_type = "WFS"
    /\ service_status["u1"].status = "timeout"
    /\ service_status["u1"].check_count = 2

====
